---- MODULE Spec2Model ----
(***************************************************************************)
(* A model of the label generator of label_maker_desktop: the quantity     *)
(* expansion, the pagination and the per-label layout of                   *)
(* label_engine.LabelGenerator, and the handling of catalog failures by    *)
(* generate_labels_entry.                                                  *)
(*                                                                         *)
(* Lengths are integers in units of 1/127 point.  reportlab's `mm` is      *)
(* 72/25.4 = 360/127 points, so it is the integer 360 here and one point   *)
(* is 127.  Settings given in millimetres are whole numbers of             *)
(* millimetres.  A quotient of two lengths or of a length and a count      *)
(* (the raw line height, the barcode scale factor) is kept as an exact     *)
(* fraction [n, d]; the rounding of Python's floats is not modelled.       *)
(***************************************************************************)
EXTENDS Integers, Sequences, FiniteSets, TLC

(***************************************************************************)
(* Bounds of the model.                                                    *)
(***************************************************************************)
MaxSkus == 2
MaxPerPage == 3

(***************************************************************************)
(* Units and the defaults of label_engine.py.                              *)
(***************************************************************************)
mm == 360
pt == 127

DEFAULT_OUTPUT_FILE == "labels.pdf"
DEFAULT_CARE_IMAGE_PATH == "care.png"
DEFAULT_PAGE_WIDTH_MM == 120
DEFAULT_PAGE_HEIGHT_MM == 70
DEFAULT_LABEL_WIDTH_MM == 40
DEFAULT_FONT_SIZE == 6
DEFAULT_MIN_LINE_HEIGHT_MM == 2
DEFAULT_BARCODE_HEIGHT_MM == 6
DEFAULT_BOTTOM_MARGIN_MM == 0
DEFAULT_TOP_MARGIN_MM == 2
DEFAULT_LABELS_PER_PAGE == 3
MAX_LINE_HEIGHT_MM == 4

(***************************************************************************)
(* Exact fractions.                                                        *)
(***************************************************************************)
Abs(a) == IF a < 0 THEN -a ELSE a

RECURSIVE Gcd(_, _)
Gcd(a, b) == IF b = 0 THEN a ELSE Gcd(b, a % b)

Frac(n, d) ==
    LET s == IF d < 0 THEN -1 ELSE 1
        g == Gcd(Abs(n), Abs(d))
    IN  [n |-> (s * n) \div g, d |-> (s * d) \div g]

Whole(a) == [n |-> a, d |-> 1]
FLess(a, b) == a.n * b.d < b.n * a.d
FLeq(a, b) == a.n * b.d <= b.n * a.d
FEq(a, b) == a.n * b.d = b.n * a.d

\* a + bn/bd; the larger denominator is kept when one of the two is 1.
FSum(a, bn, bd) ==
    IF a.d = bd THEN [n |-> a.n + bn, d |-> bd]
    ELSE IF bd = 1 THEN [n |-> a.n + bn * a.d, d |-> a.d]
    ELSE IF a.d = 1 THEN [n |-> a.n * bd + bn, d |-> bd]
    ELSE Frac(a.n * bd + bn * a.d, a.d * bd)

FSub(a, b) == FSum(a, -b.n, b.d)
FAdd(a, b) == FSum(a, b.n, b.d)
FHalf(a) == Frac(a.n, a.d * 2)
FMul(a, b) == Frac(a.n * b.n, a.d * b.d)

(***************************************************************************)
(* Settings: a dictionary, read with settings.get(key, default).           *)
(***************************************************************************)
Get(s, k, default) == IF k \in DOMAIN s THEN s[k] ELSE default

EmptySettings == <<>>

DialogSettings(ph, mlh, lw, lpp, usq, care) ==
    ("page_width_mm" :> DEFAULT_PAGE_WIDTH_MM) @@ ("page_height_mm" :> ph)
    @@ ("label_width_mm" :> lw) @@ ("font_size" :> DEFAULT_FONT_SIZE)
    @@ ("min_line_height_mm" :> mlh)
    @@ ("barcode_height_mm" :> DEFAULT_BARCODE_HEIGHT_MM)
    @@ ("bottom_margin_mm" :> DEFAULT_BOTTOM_MARGIN_MM)
    @@ ("top_margin_mm" :> DEFAULT_TOP_MARGIN_MM)
    @@ ("output_file" :> DEFAULT_OUTPUT_FILE) @@ ("care_image_path" :> care)
    @@ ("labels_per_page" :> lpp) @@ ("use_stock_quantity" :> usq)

PageHeights == {15, 40, 70}
MinLineHeights == {2, 5}
LabelWidths == {30, 40}
CarePaths == {"", "care.png"}

SettingsSet ==
    {EmptySettings} \cup
    {DialogSettings(ph, mlh, lw, lpp, usq, care) :
        ph \in PageHeights, mlh \in MinLineHeights, lw \in LabelWidths,
        lpp \in 1..MaxPerPage, usq \in BOOLEAN, care \in CarePaths}

(***************************************************************************)
(* The catalog.  A product is the record get_products_by_skus builds; its  *)
(* texts are held by what the layout reads of them:                        *)
(*   stock     the `_stock` meta value                                     *)
(*   meas      whether extract_measurements resolved a measurements line   *)
(*   slugs     the non-blank attribute_* values                            *)
(*   wrap      the number of lines simpleSplit cuts each text into         *)
(*   care_in   the data lines whose text contains "уход"                   *)
(*   price_in  the data lines whose text contains "цена:"                  *)
(*   bc_width  the natural width of the Code128 drawing of the SKU         *)
(***************************************************************************)
StockMissing == [tag |-> "missing", neg |-> FALSE, whole |-> 0, tenths |-> 0]
StockNone == [tag |-> "none", neg |-> FALSE, whole |-> 0, tenths |-> 0]
StockEmpty == [tag |-> "empty", neg |-> FALSE, whole |-> 0, tenths |-> 0]
StockText == [tag |-> "text", neg |-> FALSE, whole |-> 0, tenths |-> 0]
StockNum(neg, whole, tenths) ==
    [tag |-> "num", neg |-> neg, whole |-> whole, tenths |-> tenths]

Kinds == {"title", "art", "meas", "compo", "importer", "manuf", "date", "care", "price"}

Compact == [k \in Kinds |-> 1]
Typical == [k \in Kinds |->
    IF k \in {"title", "compo"} THEN 2
    ELSE IF k \in {"importer", "manuf"} THEN 3 ELSE 1]
Long == [k \in Kinds |->
    IF k \in {"title", "importer", "manuf"} THEN 3
    ELSE IF k \in {"art", "compo", "care", "price"} THEN 2 ELSE 1]

Product(id, stock, meas, slugs, wrap, care_in, price_in, w) ==
    [id |-> id, stock |-> stock, meas |-> meas, slugs |-> slugs, wrap |-> wrap,
     care_in |-> care_in, price_in |-> price_in, bc_width |-> w]

Catalog ==
    ("A" :> Product(1, StockMissing, FALSE, {}, Compact, {}, {}, 90 * pt))
    @@ ("B" :> Product(2, StockNum(FALSE, 3, 0), TRUE, {"red"}, Typical, {}, {}, 103 * pt))
    @@ ("C" :> Product(3, StockNum(FALSE, 4, 0), TRUE, {"red", "dots"}, Long, {}, {}, 116 * pt))
    @@ ("D" :> Product(4, StockNum(FALSE, 0, 0), FALSE, {}, Compact, {}, {}, 90 * pt))
    @@ ("E" :> Product(5, StockNum(TRUE, 2, 0), FALSE, {"blue"}, Typical, {}, {}, 103 * pt))
    @@ ("F" :> Product(6, StockNum(FALSE, 2, 7), TRUE, {}, Long, {"title"}, {"compo"}, 116 * pt))

Skus == DOMAIN Catalog

\* The SKU lists tried: get_products_by_skus reads the list only through
\* `if not skus` and SQL's IN (...), so the lists are taken in catalog order
\* (a SKU may repeat).
SkuLists ==
    {l \in UNION {[1..n -> Skus] : n \in 0..MaxSkus} :
        \A i, j \in DOMAIN l : i < j => Catalog[l[i]].id <= Catalog[l[j]].id}

(***************************************************************************)
(* get_product_quantity: int(float(raw_qty)) if raw_qty else 1, and 1 when *)
(* the conversion raises.                                                  *)
(***************************************************************************)
\* float(raw_qty) in tenths; the text is not a number when tag = "text".
ParseFloat(raw) ==
    (IF raw.neg THEN -1 ELSE 1) * (raw.whole * 10 + raw.tenths)

\* int(f): truncation towards zero.
IntOf(f10) == IF f10 < 0 THEN -((-f10) \div 10) ELSE f10 \div 10

\* bool(raw_qty): None and "" are falsy, every other string is truthy.
Truthy(raw) == raw.tag \notin {"none", "empty"}

get_product_quantity(product, use_stock_quantity) ==
    IF ~use_stock_quantity THEN 1
    ELSE LET raw_qty == IF product.stock.tag = "missing"
                        THEN StockNum(FALSE, 1, 0) ELSE product.stock
         IN  IF ~Truthy(raw_qty) THEN 1
             ELSE IF raw_qty.tag = "text" THEN 1
             ELSE IntOf(ParseFloat(raw_qty))

\* [product] * qty: empty when qty <= 0.
Repeat(product, qty) == [i \in 1..qty |-> product]

RECURSIVE ExpandFrom(_, _, _)
ExpandFrom(prods, i, use_stock_quantity) ==
    IF i > Len(prods) THEN <<>>
    ELSE Repeat(prods[i], get_product_quantity(prods[i], use_stock_quantity))
         \o ExpandFrom(prods, i + 1, use_stock_quantity)

(***************************************************************************)
(* LabelGenerator.__init__: the settings, millimetres converted to points. *)
(***************************************************************************)
LabelGenerator(s) ==
    [page_width |-> Get(s, "page_width_mm", DEFAULT_PAGE_WIDTH_MM) * mm,
     page_height |-> Get(s, "page_height_mm", DEFAULT_PAGE_HEIGHT_MM) * mm,
     label_width |-> Get(s, "label_width_mm", DEFAULT_LABEL_WIDTH_MM) * mm,
     font_size |-> Get(s, "font_size", DEFAULT_FONT_SIZE),
     min_line_height |-> Get(s, "min_line_height_mm", DEFAULT_MIN_LINE_HEIGHT_MM) * mm,
     barcode_height |-> Get(s, "barcode_height_mm", DEFAULT_BARCODE_HEIGHT_MM) * mm,
     bottom_margin |-> Get(s, "bottom_margin_mm", DEFAULT_BOTTOM_MARGIN_MM) * mm,
     top_margin |-> Get(s, "top_margin_mm", DEFAULT_TOP_MARGIN_MM) * mm,
     output_file |-> Get(s, "output_file", DEFAULT_OUTPUT_FILE),
     care_image_path |-> Get(s, "care_image_path", DEFAULT_CARE_IMAGE_PATH),
     labels_per_page |-> Get(s, "labels_per_page", DEFAULT_LABELS_PER_PAGE),
     use_stock_quantity |-> Get(s, "use_stock_quantity", TRUE),
     MIN_LINE_HEIGHT |-> Get(s, "min_line_height_mm", DEFAULT_MIN_LINE_HEIGHT_MM) * mm,
     MAX_LINE_HEIGHT |-> MAX_LINE_HEIGHT_MM * mm]

\* The generator before __init__ has run.
NoGenerator == LabelGenerator(EmptySettings)

(***************************************************************************)
(* The lines of one label.                                                 *)
(***************************************************************************)
\* One entry of lines_defs; care_word and price_word are the tests
\* "уход" in rawtext.lower() and "цена:" in rawtext.lower().
LineDef(font, kind, align, product) ==
    [font |-> font, kind |-> kind, align |-> align,
     care_word |-> kind = "care" \/ kind \in product.care_in,
     price_word |-> kind = "price" \/ kind \in product.price_in]

\* A faulty line list: the measurements line is appended after the price.
LinesDefsMeasurementsLast(product) ==
    << LineDef("DejaVuSans-Bold", "title", "center", product),
       LineDef("DejaVuSans-Bold", "art", "left", product),
       LineDef("DejaVuSans", "compo", "left", product),
       LineDef("DejaVuSans", "importer", "left", product),
       LineDef("DejaVuSans", "manuf", "left", product),
       LineDef("DejaVuSans", "date", "left", product),
       LineDef("DejaVuSans", "care", "left", product),
       LineDef("DejaVuSans-Bold", "price", "left", product) >>
    \o (IF product.meas
        THEN << LineDef("DejaVuSans", "meas", "left", product) >>
        ELSE << >>)

lines_defs(product) ==
    << LineDef("DejaVuSans-Bold", "title", "center", product),
       LineDef("DejaVuSans-Bold", "art", "left", product) >>
    \o (IF product.meas
        THEN << LineDef("DejaVuSans", "meas", "left", product) >>
        ELSE << >>)
    \o << LineDef("DejaVuSans", "compo", "left", product),
          LineDef("DejaVuSans", "importer", "left", product),
          LineDef("DejaVuSans", "manuf", "left", product),
          LineDef("DejaVuSans", "date", "left", product),
          LineDef("DejaVuSans", "care", "left", product),
          LineDef("DejaVuSans-Bold", "price", "left", product) >>

\* len(simpleSplit(rawtext, font, font_size, label_width - 8)): at least one
\* line, since no rawtext is blank.
simpleSplit(def, product) == product.wrap[def.kind]

Sublines(def, product) ==
    LET n == simpleSplit(def, product)
    IN  [idx_sub \in 1..n |->
            [font |-> def.font, kind |-> def.kind, sub |-> idx_sub,
             align |-> def.align,
             is_care |-> def.care_word /\ idx_sub = n,
             is_price |-> def.price_word /\ idx_sub = n]]

RECURSIVE FinalFrom(_, _, _)
FinalFrom(defs, i, product) ==
    IF i > Len(defs) THEN << >>
    ELSE Sublines(defs[i], product) \o FinalFrom(defs, i + 1, product)

final_lines(product) == FinalFrom(lines_defs(product), 1, product)

(***************************************************************************)
(* The line height of one label.                                           *)
(***************************************************************************)
care_img_height == 4
care_img_extra == 2
bc_extra == 2
min_text_space_mm == 5
price_gap_mm == 3
care_gap_mm == 1
price_font_size == 8

\* A faulty test: the care line alone decides, whether or not an image was
\* loaded.
CareLineAlone(fl, care_img) == \E i \in DOMAIN fl : fl[i].is_care

has_care_img(fl, care_img) ==
    (\E i \in DOMAIN fl : fl[i].is_care) /\ care_img

has_barcode(fl) == \E i \in DOMAIN fl : fl[i].is_price

physically_used_mm(g, fl, care_img) ==
    (IF has_care_img(fl, care_img) THEN care_img_height + care_img_extra ELSE 0)
    + (IF has_barcode(fl) THEN (g.barcode_height \div mm) + bc_extra ELSE 0)

\* A faulty text space: the floor of 5 mm is forgotten.
TextSpaceWithoutFloor(g, fl, care_img) ==
    ((g.page_height - g.top_margin - g.bottom_margin) \div mm)
    - ((IF (\E i \in DOMAIN fl : fl[i].is_care) /\ care_img
        THEN care_img_height + care_img_extra ELSE 0)
       + (IF \E i \in DOMAIN fl : fl[i].is_price
          THEN (g.barcode_height \div mm) + bc_extra ELSE 0))

text_space_mm(g, fl, care_img) ==
    LET space == ((g.page_height - g.top_margin - g.bottom_margin) \div mm)
                 - physically_used_mm(g, fl, care_img)
    IN  IF space < min_text_space_mm THEN min_text_space_mm ELSE space

text_space_pts(g, fl, care_img) == text_space_mm(g, fl, care_img) * mm

\* text_space_pts / text_lines_count, for text_lines_count > 0.
raw_line_height(g, fl, care_img) ==
    Frac(text_space_pts(g, fl, care_img), Len(fl))

\* A faulty clamp: the upper limit is forgotten.
LineHeightWithoutUpperClamp(g, fl, care_img) ==
    IF Len(fl) > 0
    THEN LET raw == raw_line_height(g, fl, care_img)
         IN  IF FLess(raw, Whole(g.MIN_LINE_HEIGHT)) THEN Whole(g.MIN_LINE_HEIGHT)
             ELSE raw
    ELSE Whole(g.MIN_LINE_HEIGHT)

line_height(g, fl, care_img) ==
    IF Len(fl) > 0
    THEN LET raw == raw_line_height(g, fl, care_img)
         IN  IF FLess(raw, Whole(g.MIN_LINE_HEIGHT)) THEN Whole(g.MIN_LINE_HEIGHT)
             ELSE IF FLess(Whole(g.MAX_LINE_HEIGHT), raw) THEN Whole(g.MAX_LINE_HEIGHT)
             ELSE raw
    ELSE Whole(g.MIN_LINE_HEIGHT)

(***************************************************************************)
(* The barcode of a price line: its horizontal geometry, the same for      *)
(* every barcode of one label, and its bc_y.                               *)
(***************************************************************************)
left_right_padding_mm == 2

\* A faulty usable width: the padding is subtracted on one side only.
UsableWidthOnePadding(g) == (g.label_width \div mm) - left_right_padding_mm

usable_width_mm(g) == (g.label_width \div mm) - 2 * left_right_padding_mm

scale_factor(g, bc_width) == Frac(usable_width_mm(g) * mm, bc_width)

Barcode(g, x, product) ==
    LET bc_width == product.bc_width
        usable == Whole(usable_width_mm(g) * mm)
        scale == scale_factor(g, bc_width)
        rendered == FMul(Whole(bc_width), scale)
    IN  [usable_width_mm |-> usable_width_mm(g),
         bc_width |-> bc_width,
         scale_factor |-> scale,
         rendered_width |-> rendered,
         bc_x |-> FAdd(Whole(x + left_right_padding_mm * mm),
                       FHalf(FSub(usable, rendered)))]

NoBarcode ==
    [usable_width_mm |-> 0, bc_width |-> 0, scale_factor |-> Whole(0),
     rendered_width |-> Whole(0), bc_x |-> Whole(0)]

\* bc_y = current_y - barcode_height_mm * mm
bc_y(g, current_y) == FSub(current_y, Whole((g.barcode_height \div mm) * mm))

(***************************************************************************)
(* The drawing loop over final_lines: what is drawn for each line and how  *)
(* far current_y moves.                                                    *)
(***************************************************************************)
RECURSIVE DrawFrom(_, _, _, _, _)
DrawFrom(g, fl, i, current_y, placing) ==
    IF i > Len(fl) THEN << >>
    ELSE LET ln == fl[i]
             text_y == IF ln.is_price
                       THEN FSub(current_y, Whole(price_gap_mm * mm))
                       ELSE current_y
             with_image == ln.is_care /\ placing.has_care_img
             next_y == IF with_image
                       THEN FSub(FSub(text_y, Whole(care_gap_mm * mm)),
                                 Whole(care_img_height * mm))
                       ELSE FSub(text_y, placing.line_height)
             with_barcode == ln.is_price /\ placing.has_barcode
             drawn == [kind |-> ln.kind, sub |-> ln.sub,
                       font |-> IF ln.is_price THEN "DejaVuSans-Bold" ELSE ln.font,
                       size |-> IF ln.is_price THEN price_font_size ELSE g.font_size,
                       is_care |-> ln.is_care, is_price |-> ln.is_price,
                       text_y |-> text_y,
                       image |-> with_image,
                       next_y |-> next_y,
                       barcode |-> with_barcode,
                       bc_y |-> IF with_barcode THEN bc_y(g, next_y) ELSE Whole(0)]
         IN  << drawn >> \o DrawFrom(g, fl, i + 1, next_y, placing)

\* What one iteration of the placement loop computes before it draws.
Placing(g, idx, fl, care_img) ==
    LET pos_in_page == idx % g.labels_per_page
    IN  [idx |-> idx, pos_in_page |-> pos_in_page,
         x |-> pos_in_page * g.label_width,
         text_lines_count |-> Len(fl),
         has_care_img |-> has_care_img(fl, care_img),
         has_barcode |-> has_barcode(fl),
         physically_used_mm |-> physically_used_mm(g, fl, care_img),
         raw_line_height |-> raw_line_height(g, fl, care_img),
         line_height |-> line_height(g, fl, care_img)]

\* One iteration of the placement loop: the computed layout and the draws.
Layout(g, idx, product, care_img) ==
    LET fl == final_lines(product)
        placing == Placing(g, idx, fl, care_img)
    IN  [product |-> product.id,
         bc |-> IF placing.has_barcode
                THEN Barcode(g, placing.x, product) ELSE NoBarcode,
         draws |-> DrawFrom(g, fl, 1, Whole(g.page_height - g.top_margin),
                            placing)] @@ placing

NoLabel ==
    [idx |-> -1, pos_in_page |-> 0, x |-> 0, product |-> 0,
     text_lines_count |-> 0, has_care_img |-> FALSE, has_barcode |-> FALSE,
     physically_used_mm |-> 0, raw_line_height |-> Whole(0),
     line_height |-> Whole(0), bc |-> NoBarcode, draws |-> << >>]

(***************************************************************************)
(* Pagination.                                                             *)
(***************************************************************************)
\* A faulty page break: the test idx != 0 is forgotten.
BreakAtEveryMultiple(idx, labels_per_page) == idx % labels_per_page = 0

\* pos_in_page == 0 and idx != 0
NeedsPageBreak(idx, labels_per_page) ==
    idx % labels_per_page = 0 /\ idx # 0

\* A faulty trailing break: the last page is flushed whatever the count.
TrailingBreakAlways(count, labels_per_page) == TRUE

\* len(products_list) % self.labels_per_page != 0
NeedsTrailingBreak(count, labels_per_page) == count % labels_per_page # 0

ShowPage == [op |-> "showPage", idx |-> -1, pos |-> -1]
Save == [op |-> "save", idx |-> -1, pos |-> -1]
Place(idx, pos) == [op |-> "label", idx |-> idx, pos |-> pos]

(***************************************************************************)
(* The state of one call generate_labels_entry(skus, settings, db_config). *)
(***************************************************************************)
VARIABLES
    settings,     \* the settings dictionary passed in
    skus,         \* the SKU list passed in
    pc,           \* where the call is
    gen,          \* the LabelGenerator
    products,     \* products.values() as returned by get_products_by_skus
    expanded,     \* expanded_products, then products_list
    care_img,     \* whether load_care_image returned an image
    idx,          \* the running label index of the placement loop
    canvas,       \* the page breaks, labels and save issued to the canvas
    label,        \* the label placed last
    log,          \* the records logged by label_engine
    db_failed,    \* whether a catalog call raised DatabaseConnectionError
    raised,       \* the exception that left generate_labels_entry, or "none"
    calls         \* how often each collaborator was invoked

\* The state of the other parts of the program, each a record of fields.
VARIABLES
    ui,           \* a preview request: the GUI handler and generate_preview_pdf
    svc,          \* a DatabaseService, its connector and one operation on it
    fn,           \* one call of a helper function of label_engine
    cfg,          \* one run of generate_labels_entry on settings read from JSON
    imp,          \* one import of the label_engine module
    app           \* one call of LabelMakerApp.generate_pdf

engineVars == << settings, skus, pc, gen, products, expanded, care_img, idx,
                 canvas, label, log, db_failed, raised, calls >>
otherVars == << ui, svc, fn, cfg, imp, app >>
vars == << engineVars, otherVars >>

\* A part of the program that takes no step in the run considered.
Idle == [pc |-> "idle"]

Range(f) == {f[i] : i \in DOMAIN f}

\* The orders in which the rows of a set of products can come back.
Orders(S) == {f \in [1..Cardinality(S) -> S] : \A i, j \in DOMAIN f : f[i] = f[j] => i = j}

\* all_slugs: the non-blank attribute values of the products to place.
all_slugs(prods) == UNION {prods[i].slugs : i \in DOMAIN prods}

Init ==
    /\ settings \in SettingsSet
    /\ skus \in SkuLists
    /\ pc = "called"
    /\ gen = NoGenerator
    /\ products = << >>
    /\ expanded = << >>
    /\ care_img = FALSE
    /\ idx = 0
    /\ canvas = << >>
    /\ label = NoLabel
    /\ log = << >>
    /\ db_failed = FALSE
    /\ raised = "none"
    /\ calls = [get_products_by_skus |-> 0, get_term_labels |-> 0, load_care_image |-> 0]
    /\ ui = Idle /\ svc = Idle /\ fn = Idle /\ cfg = Idle /\ imp = Idle /\ app = Idle

\* generate_labels_entry (module level): the service and the generator are built.
Construct ==
    /\ pc = "called"
    /\ UNCHANGED otherVars
    /\ gen' = LabelGenerator(settings)
    /\ pc' = "entry"
    /\ UNCHANGED << settings, skus, products, expanded, care_img, idx, canvas,
                    label, log, db_failed, raised, calls >>

\* LabelGenerator.generate_labels_entry: get_products_by_skus returns the
\* products whose SKU is in the list, one per product, in the order of the rows.
GetProductsOk ==
    /\ pc = "entry"
    /\ UNCHANGED otherVars
    /\ \E order \in Orders({Catalog[s] : s \in Range(skus)}) : products' = order
    /\ calls' = [calls EXCEPT !.get_products_by_skus = @ + 1]
    /\ pc' = "fetched"
    /\ UNCHANGED << settings, skus, gen, expanded, care_img, idx, canvas, label,
                    log, db_failed, raised >>

\* get_products_by_skus raises DatabaseConnectionError (it contacts the
\* database only for a non-empty list): the method logs it and returns, and
\* the module-level caller sees a normal return.
GetProductsFails ==
    /\ pc = "entry"
    /\ UNCHANGED otherVars
    /\ skus # << >>
    /\ calls' = [calls EXCEPT !.get_products_by_skus = @ + 1]
    /\ db_failed' = TRUE
    /\ log' = Append(log, "[DB ERROR]")
    /\ raised' = "none"
    /\ pc' = "returned"
    /\ UNCHANGED << settings, skus, gen, products, expanded, care_img, idx,
                    canvas, label >>

\* The expansion by quantity.
Expand ==
    /\ pc = "fetched"
    /\ UNCHANGED otherVars
    /\ expanded' = ExpandFrom(products, 1, gen.use_stock_quantity)
    /\ pc' = "expanded"
    /\ UNCHANGED << settings, skus, gen, products, care_img, idx, canvas, label,
                    log, db_failed, raised, calls >>

\* What happens when load_care_image reads a non-empty path: the image is
\* loaded, the file is missing (and the path is no URL that answers), the
\* download fails, or the data is no image.
CareOutcomes == { "loaded", "missing file", "network error", "decode error" }

\* load_care_image: TRUE for an image, FALSE for None.  None for an empty
\* path; every exception of the loading is caught and gives None.
load_care_image(path_or_url, outcome) ==
    IF path_or_url = "" THEN FALSE
    ELSE outcome = "loaded"

\* generate_labels: the canvas is created and the care image is loaded once.
BeginGenerate ==
    /\ pc = "expanded"
    /\ UNCHANGED otherVars
    /\ \E outcome \in CareOutcomes :
          care_img' = load_care_image(gen.care_image_path, outcome)
    /\ calls' = [calls EXCEPT !.load_care_image = @ + 1]
    /\ pc' = "terms"
    /\ UNCHANGED << settings, skus, gen, products, expanded, idx, canvas, label,
                    log, db_failed, raised >>

\* get_term_labels returns the labels (without contacting the database when
\* there is no slug).
GetTermLabelsOk ==
    /\ pc = "terms"
    /\ UNCHANGED otherVars
    /\ calls' = [calls EXCEPT !.get_term_labels = @ + 1]
    /\ pc' = "placing"
    /\ UNCHANGED << settings, skus, gen, products, expanded, care_img, idx,
                    canvas, label, log, db_failed, raised >>

\* get_term_labels raises DatabaseConnectionError: nothing in the method
\* catches it, the module-level generate_labels_entry logs it and returns.
GetTermLabelsFails ==
    /\ pc = "terms"
    /\ UNCHANGED otherVars
    /\ all_slugs(expanded) # {}
    /\ calls' = [calls EXCEPT !.get_term_labels = @ + 1]
    /\ db_failed' = TRUE
    /\ log' = Append(log, "[DB ERROR]")
    /\ raised' = "none"
    /\ pc' = "returned"
    /\ UNCHANGED << settings, skus, gen, products, expanded, care_img, idx,
                    canvas, label >>

\* A faulty placement loop that loads the care image again for every label.
PlaceLabelLoadingImage ==
    /\ pc = "placing"
    /\ UNCHANGED otherVars
    /\ idx < Len(expanded)
    /\ LET product == expanded[idx + 1]
           placed == Layout(gen, idx, product, care_img)
       IN  /\ canvas' = canvas
                \o (IF NeedsPageBreak(idx, gen.labels_per_page)
                    THEN << ShowPage >> ELSE << >>)
                \o << Place(idx, placed.pos_in_page) >>
           /\ label' = placed
    /\ idx' = idx + 1
    /\ calls' = [calls EXCEPT !.load_care_image = @ + 1]
    /\ UNCHANGED << settings, skus, pc, gen, products, expanded, care_img, log,
                    db_failed, raised >>

\* One iteration of the placement loop.
PlaceLabel ==
    /\ pc = "placing"
    /\ UNCHANGED otherVars
    /\ idx < Len(expanded)
    /\ LET product == expanded[idx + 1]
           placed == Layout(gen, idx, product, care_img)
       IN  /\ canvas' = canvas
                \o (IF NeedsPageBreak(idx, gen.labels_per_page)
                    THEN << ShowPage >> ELSE << >>)
                \o << Place(idx, placed.pos_in_page) >>
           /\ label' = placed
    /\ idx' = idx + 1
    /\ UNCHANGED << settings, skus, pc, gen, products, expanded, care_img, log,
                    db_failed, raised, calls >>

\* After the loop: the trailing page break, the save and the log record.
Finish ==
    /\ pc = "placing"
    /\ UNCHANGED otherVars
    /\ idx = Len(expanded)
    /\ canvas' = canvas
         \o (IF NeedsTrailingBreak(Len(expanded), gen.labels_per_page)
             THEN << ShowPage >> ELSE << >>)
         \o << Save >>
    /\ log' = Append(log, "generated")
    /\ raised' = "none"
    /\ pc' = "returned"
    /\ UNCHANGED << settings, skus, gen, products, expanded, care_img, idx,
                    label, db_failed, calls >>

Next ==
    \/ Construct
    \/ GetProductsOk
    \/ GetProductsFails
    \/ Expand
    \/ BeginGenerate
    \/ GetTermLabelsOk
    \/ GetTermLabelsFails
    \/ PlaceLabel
    \/ Finish

Spec == Init /\ [][Next]_vars

(***************************************************************************)
(* Properties.                                                             *)
(***************************************************************************)
\* What the canvas log shows.
LabelAt(k) == canvas[k].op = "label"
BreakAt(k) == canvas[k].op = "showPage"
LabelPositions == {k \in DOMAIN canvas : LabelAt(k)}
NumLabels == Cardinality(LabelPositions)
\* The page an operation falls on: the number of page breaks before it.
PageOf(k) == Cardinality({j \in 1..(k - 1) : BreakAt(j)})
Saved == canvas # << >> /\ canvas[Len(canvas)].op = "save"
Completed == pc = "returned" /\ ~db_failed
LabelPlaced == label.idx >= 0

\* C1: a page break is issued immediately before the label with running
\* index idx exactly when idx mod labels_per_page = 0 and idx # 0; the labels
\* are placed in index order, label idx in slot idx mod labels_per_page, and
\* no page receives more than labels_per_page labels.
C1_PageBreakExactlyAtMultiples ==
    \A k \in LabelPositions :
        LET i == canvas[k].idx
            per_page == gen.labels_per_page
        IN  /\ i = Cardinality({j \in LabelPositions : j < k})
            /\ (k > 1 /\ BreakAt(k - 1)) <=> (i % per_page = 0 /\ i # 0)
            /\ canvas[k].pos = i % per_page
            /\ Cardinality({j \in LabelPositions : PageOf(j) = PageOf(k)}) <= per_page

\* C1 witness: with three labels per page the seventh label (index 6) has
\* been placed right after a page break.
C1_Witness ==
    /\ gen.labels_per_page = 3
    /\ \E k \in LabelPositions : canvas[k].idx = 6 /\ k > 1 /\ BreakAt(k - 1)

\* C2: once the run has completed, the document is saved last and only
\* once, and the operation before the save is a page break exactly when the
\* number of labels is not a multiple of labels_per_page (7 labels, 3 per
\* page: breaks before labels 3 and 6 and one trailing break; 6 labels: no
\* trailing break); no save is issued before the last label is placed.
C2_TrailingBreakThenSave ==
    /\ \A k \in DOMAIN canvas :
          canvas[k].op = "save" => (k = Len(canvas) /\ pc = "returned")
    /\ \A k \in DOMAIN canvas :
          (BreakAt(k) /\ k > 1) => ~BreakAt(k - 1)
    /\ Completed =>
          /\ Saved
          /\ NumLabels = Len(expanded)
          /\ (Len(canvas) > 1 /\ BreakAt(Len(canvas) - 1))
                <=> (NumLabels % gen.labels_per_page # 0)
          /\ (NumLabels = 7 /\ gen.labels_per_page = 3) =>
                {k \in DOMAIN canvas : BreakAt(k)} = {4, 8, 10}
          /\ (NumLabels = 6 /\ gen.labels_per_page = 3) =>
                {k \in DOMAIN canvas : BreakAt(k)} = {4}

\* C2 witness: a completed run of 7 labels, 3 per page, ending with the
\* trailing page break and the save.
C2_Witness ==
    /\ Completed /\ Saved
    /\ NumLabels = 7 /\ gen.labels_per_page = 3
    /\ BreakAt(Len(canvas) - 1)

RECURSIVE SumQuantities(_, _)
SumQuantities(prods, i) ==
    IF i > Len(prods) THEN 0
    ELSE get_product_quantity(prods[i], gen.use_stock_quantity)
         + SumQuantities(prods, i + 1)

\* C3 (as claimed): in a completed run the number of labels placed equals
\* the sum of the products' quantities, and the copies of each product are
\* contiguous and in the order of the catalog's products.
C3_PlacedEqualsSumOfQuantities ==
    Completed =>
        /\ NumLabels = SumQuantities(products, 1)
        /\ \A i, j \in DOMAIN expanded :
              i < j =>
                \E a, b \in DOMAIN products :
                    a <= b /\ expanded[i] = products[a] /\ expanded[j] = products[b]

\* C4 (as claimed): with use_stock_quantity the quantity of every fetched
\* product is at least 1: it is 1 for a missing, empty, unparsable or
\* negative stock, else the stock truncated to an integer, and every product
\* has at least one copy in the expanded list.
C4_QuantityAtLeastOne ==
    (gen.use_stock_quantity /\ pc \notin {"called", "entry", "fetched"}) =>
        \A i \in DOMAIN products :
            LET stock == products[i].stock
                qty == get_product_quantity(products[i], TRUE)
            IN  /\ qty >= 1
                /\ (stock.tag # "num" \/ stock.neg) => qty = 1
                /\ (stock.tag = "num" /\ ~stock.neg) => qty = stock.whole
                /\ \E k \in DOMAIN expanded : expanded[k] = products[i]

\* C5 (as claimed): the line height of every placed label lies between
\* MIN_LINE_HEIGHT and MAX_LINE_HEIGHT.
C5_LineHeightWithinBounds ==
    LabelPlaced =>
        /\ FLeq(Whole(gen.MIN_LINE_HEIGHT), label.line_height)
        /\ FLeq(label.line_height, Whole(gen.MAX_LINE_HEIGHT))

\* What the draws of the placed label show.
CareTagged == \E i \in DOMAIN label.draws : label.draws[i].is_care
PriceTagged == \E i \in DOMAIN label.draws : label.draws[i].is_price
Reservations ==
    (IF CareTagged /\ care_img THEN 4 + 2 ELSE 0)
    + (IF PriceTagged THEN (gen.barcode_height \div mm) + 2 ELSE 0)
Advance(d) == FSub(d.text_y, d.next_y)
RawBelowMin == FLess(label.raw_line_height, Whole(gen.MIN_LINE_HEIGHT))
RawAboveMax == FLess(Whole(gen.MAX_LINE_HEIGHT), label.raw_line_height)

\* C6: the raw line height of every placed label is
\* max(5 mm, page height - top margin - bottom margin - reservations) divided
\* by the number of text lines, the reservations being 4 mm + 2 mm when a
\* care-tagged line exists and the care image was loaded, plus the barcode
\* height + 2 mm when a price-tagged line exists, whatever the number of
\* lines; with zero text lines the line height is MIN_LINE_HEIGHT.
C6_RawLineHeight ==
    /\ LabelPlaced =>
          LET avail == gen.page_height - gen.top_margin - gen.bottom_margin
                       - Reservations * mm
              space == IF avail < 5 * mm THEN 5 * mm ELSE avail
          IN  /\ label.text_lines_count = Len(label.draws)
              /\ label.text_lines_count > 0
              /\ label.has_care_img <=> (CareTagged /\ care_img)
              /\ label.has_barcode <=> PriceTagged
              /\ label.physically_used_mm = Reservations
              /\ FEq(label.raw_line_height,
                     [n |-> space, d |-> label.text_lines_count])
    /\ pc # "called" =>
          FEq(line_height(gen, << >>, care_img), Whole(gen.MIN_LINE_HEIGHT))

\* C6 witness: a label placed on a 15 mm page with the care image loaded,
\* where the reservations leave less than 5 mm and the floor applies.
C6_Witness ==
    /\ LabelPlaced
    /\ gen.page_height = 15 * mm
    /\ label.has_care_img /\ label.has_barcode
    /\ label.physically_used_mm = 14
    /\ FEq(label.raw_line_height, [n |-> 5 * mm, d |-> label.text_lines_count])

\* C7 (as claimed): when the raw line height exceeds MAX_LINE_HEIGHT every
\* drawn line of the label advances by exactly MAX_LINE_HEIGHT, and when it
\* is below MIN_LINE_HEIGHT every drawn line advances by exactly
\* MIN_LINE_HEIGHT.
C7_EveryLineAdvancesByTheClamp ==
    LabelPlaced =>
        \A i \in DOMAIN label.draws :
            /\ RawAboveMax =>
                  FEq(Advance(label.draws[i]), Whole(gen.MAX_LINE_HEIGHT))
            /\ RawBelowMin =>
                  FEq(Advance(label.draws[i]), Whole(gen.MIN_LINE_HEIGHT))

\* C7 (amended): a line drawn with the care image advances by 1 mm + 4 mm;
\* every other line advances, from the height its text is drawn at, by
\* exactly MIN_LINE_HEIGHT when the raw line height is below MIN_LINE_HEIGHT,
\* and by exactly MAX_LINE_HEIGHT when the raw line height is not below
\* MIN_LINE_HEIGHT and exceeds MAX_LINE_HEIGHT.
C7_ClampedAdvanceExceptCareImage ==
    LabelPlaced =>
        \A i \in DOMAIN label.draws :
            LET d == label.draws[i]
            IN  /\ d.image <=> (d.is_care /\ care_img)
                /\ d.image => FEq(Advance(d), Whole(1 * mm + 4 * mm))
                /\ (~d.image /\ RawBelowMin) =>
                      FEq(Advance(d), Whole(gen.MIN_LINE_HEIGHT))
                /\ (~d.image /\ ~RawBelowMin /\ RawAboveMax) =>
                      FEq(Advance(d), Whole(gen.MAX_LINE_HEIGHT))

\* C7 witness: a placed label whose raw line height exceeds MAX_LINE_HEIGHT
\* (and is not below MIN_LINE_HEIGHT), with one line drawn with the care
\* image and the other lines advancing by MAX_LINE_HEIGHT.
C7_Witness ==
    /\ LabelPlaced
    /\ RawAboveMax /\ ~RawBelowMin
    /\ \E i \in DOMAIN label.draws : label.draws[i].image
    /\ \E i \in DOMAIN label.draws :
          /\ ~label.draws[i].image
          /\ FEq(Advance(label.draws[i]), Whole(gen.MAX_LINE_HEIGHT))

KindOrder ==
    << "title", "art", "meas", "compo", "importer", "manuf", "date", "care", "price" >>
RankOf(kind) == CHOOSE r \in DOMAIN KindOrder : KindOrder[r] = kind

\* C9: the lines of every placed label are drawn in the order title,
\* article, measurements (present exactly when the product's measurements
\* were resolved), composition, importer, manufacturer, manufacturing date,
\* care header, price; the sub-lines of a wrapped line are consecutive and
\* in order, and the last line drawn is the last sub-line of the price.
C9_FixedLineOrder ==
    LabelPlaced =>
        LET d == label.draws
            product == expanded[label.idx + 1]
            n == Len(d)
        IN  /\ n > 0
            /\ d[1].kind = "title" /\ d[1].sub = 1
            /\ d[n].kind = "price" /\ d[n].sub = product.wrap["price"]
            /\ {d[i].kind : i \in DOMAIN d} =
                  (IF product.meas THEN Kinds ELSE Kinds \ {"meas"})
            /\ \A i \in 1..(n - 1) :
                  \/ d[i + 1].kind = d[i].kind /\ d[i + 1].sub = d[i].sub + 1
                  \/ /\ RankOf(d[i].kind) < RankOf(d[i + 1].kind)
                     /\ d[i].sub = product.wrap[d[i].kind]
                     /\ d[i + 1].sub = 1

\* C9 witness: a placed label of a product with resolved measurements whose
\* title, importer and price wrap over several sub-lines.
C9_Witness ==
    /\ LabelPlaced
    /\ expanded[label.idx + 1].meas
    /\ \E i \in DOMAIN label.draws :
          label.draws[i].kind = "meas"
    /\ \E i \in DOMAIN label.draws :
          label.draws[i].kind = "price" /\ label.draws[i].sub = 2
    /\ \E i \in DOMAIN label.draws :
          label.draws[i].kind = "title" /\ label.draws[i].sub = 3

\* C10 (as claimed): when get_products_by_skus or get_term_labels raises
\* DatabaseConnectionError, the call is not repeated and
\* generate_labels_entry ends by raising DatabaseConnectionError to its
\* caller.
C10_CatalogFailurePropagates ==
    (pc = "returned" /\ db_failed) =>
        /\ calls.get_products_by_skus <= 1
        /\ calls.get_term_labels <= 1
        /\ raised = "DatabaseConnectionError"

(***************************************************************************)
(* Previews: preview_engine.generate_preview_pdf and the handlers          *)
(* LabelMakerApp.show_label_preview and show_page_preview of main.py.      *)
(* The record ui holds                                                     *)
(*   handler           the function called: a handler of the window, or    *)
(*                     generate_preview_pdf called directly                *)
(*   double            whether main.generate_preview_pdf is replaced by a  *)
(*                     double that raises DatabaseConnectionError          *)
(*   skus              the skus argument: a string or a list               *)
(*   sku_list          the list handed to generator_func                   *)
(*   output_file       settings.get("output_file"), None when absent       *)
(*   original_output   the value generate_preview_pdf saved                *)
(*   logger            the records on the preview_engine logger            *)
(*   generator_raised  what generator_func raised                          *)
(*   preview_raised    what left the call of generate_preview_pdf          *)
(*   boxes             the calls of QMessageBox.critical                   *)
(*   log_output        the lines appended to the window's log              *)
(*   pixmap            whether image_label.setPixmap was called            *)
(*   handler_raised    what left the handler                               *)
(***************************************************************************)
DatabaseConnectionError == "DatabaseConnectionError"
OtherException == "Exception"
None == "None"
Absent == "absent"
PreviewPath == "preview.pdf"

Handlers == {"show_label_preview", "show_page_preview"}

\* The skus argument of generate_preview_pdf: a string or a list.
StrArg(sku) == [is_str |-> TRUE, items |-> << sku >>]
ListArg(items) == [is_str |-> FALSE, items |-> items]

\* show_page_preview: [sku] * count
PageSkus(sku, count) == ListArg([i \in 1..count |-> sku])

\* generate_preview_pdf: [skus] for a string, list(skus) otherwise.
sku_list(arg) == arg.items

UiInit(handler, double, arg, output_file) ==
    [pc |-> "called", handler |-> handler, double |-> double, skus |-> arg,
     sku_list |-> << >>, output_file |-> output_file,
     output_before |-> output_file, original_output |-> None,
     logger |-> << >>, generator_raised |-> "none", preview_raised |-> "none",
     boxes |-> 0, log_output |-> << >>, pixmap |-> FALSE,
     handler_raised |-> "none"]

\* A faulty handler: every exception is only written to the window's log.
HandleExceptionLogsAll(u, exc) ==
    [u EXCEPT !.pc = "done",
              !.log_output = Append(@, "preview error")]

\* The except clauses of a preview handler.
HandleException(u, exc) ==
    IF exc = DatabaseConnectionError
    THEN [u EXCEPT !.pc = "done", !.boxes = @ + 1]
    ELSE [u EXCEPT !.pc = "done", !.log_output = Append(@, "preview error")]

\* settings.get("output_file"): None for a missing key and for a key that
\* holds None.
GetOutputFile(u) ==
    IF u.output_file = Absent THEN None ELSE u.output_file

\* The finally clause of generate_preview_pdf: the value is put back when it
\* is not None, otherwise the key is popped.
RestoreOutput(u) ==
    [u EXCEPT !.output_file =
        IF u.original_output # None THEN u.original_output ELSE Absent]

\* What happens once generate_preview_pdf is left by an exception: in a
\* handler its except clauses run, a direct caller receives the exception.
PreviewLeftBy(u, exc) ==
    IF u.handler \in Handlers
    THEN HandleException([u EXCEPT !.preview_raised = exc], exc)
    ELSE [u EXCEPT !.pc = "done", !.preview_raised = exc]

\* What happens once generate_preview_pdf returns.
PreviewReturned(u) ==
    IF u.handler \in Handlers
    THEN [u EXCEPT !.pc = "preview_returned"]
    ELSE [u EXCEPT !.pc = "done"]

\* What settings["output_file"] can be before the call: no such key, the
\* key holding None (null in settings.json), a file name, the empty text.
OutputFiles == { Absent, None, DEFAULT_OUTPUT_FILE, "" }

UiInits ==
    {UiInit(h, d, arg, out) :
        h \in {"show_label_preview"}, d \in BOOLEAN,
        arg \in {StrArg("A")}, out \in OutputFiles}
    \cup {UiInit(h, d, PageSkus("A", count), out) :
        h \in {"show_page_preview"}, d \in BOOLEAN,
        count \in 1..MaxPerPage, out \in OutputFiles}
    \cup {UiInit("generate_preview_pdf", FALSE, arg, out) :
        arg \in {StrArg("SKU"), ListArg(<< >>), ListArg(<< "A", "B" >>)},
        out \in OutputFiles}

\* The parts of the program that take no step in a run of another part.
EngineIdle ==
    /\ settings = EmptySettings /\ skus = << >> /\ pc = "idle"
    /\ gen = NoGenerator /\ products = << >> /\ expanded = << >>
    /\ care_img = FALSE /\ idx = 0 /\ canvas = << >> /\ label = NoLabel
    /\ log = << >> /\ db_failed = FALSE /\ raised = "none"
    /\ calls = [get_products_by_skus |-> 0, get_term_labels |-> 0, load_care_image |-> 0]

PreviewInit ==
    /\ EngineIdle
    /\ ui \in UiInits
    /\ svc = Idle /\ fn = Idle /\ cfg = Idle /\ imp = Idle /\ app = Idle

\* The handler creates the temporary file and keeps its name.
CreateTempFile ==
    /\ ui.pc = "called" /\ ui.handler \in Handlers
    /\ ui' = [ui EXCEPT !.pc = "have_path"]
    /\ UNCHANGED << engineVars, svc, fn, cfg, imp, app >>

\* tempfile.NamedTemporaryFile raises: except Exception logs it.
CreateTempFileFails ==
    /\ ui.pc = "called" /\ ui.handler \in Handlers
    /\ ui' = HandleException(ui, OtherException)
    /\ UNCHANGED << engineVars, svc, fn, cfg, imp, app >>

\* The handler calls the double bound to main.generate_preview_pdf, which
\* raises DatabaseConnectionError.
PreviewDoubleRaises ==
    /\ ui.pc = "have_path" /\ ui.double
    /\ ui' = PreviewLeftBy(ui, DatabaseConnectionError)
    /\ UNCHANGED << engineVars, svc, fn, cfg, imp, app >>

\* generate_preview_pdf up to the call of generator_func.
EnterPreview ==
    /\ \/ ui.pc = "have_path" /\ ~ui.double
       \/ ui.pc = "called" /\ ui.handler = "generate_preview_pdf"
    /\ ui' = [ui EXCEPT !.pc = "generating",
                        !.sku_list = sku_list(ui.skus),
                        !.original_output = GetOutputFile(ui),
                        !.output_file = PreviewPath]
    /\ UNCHANGED << engineVars, svc, fn, cfg, imp, app >>

\* generator_func returns: the finally clause restores output_file.
GeneratorReturns ==
    /\ ui.pc = "generating"
    /\ ui' = PreviewReturned(RestoreOutput(ui))
    /\ UNCHANGED << engineVars, svc, fn, cfg, imp, app >>

\* generator_func raises DatabaseConnectionError: it is logged, output_file
\* is restored and generate_preview_pdf returns.
GeneratorRaisesDatabaseError ==
    /\ ui.pc = "generating"
    /\ ui' = PreviewReturned(RestoreOutput(
                [ui EXCEPT !.generator_raised = DatabaseConnectionError,
                           !.logger = Append(@, [level |-> "ERROR",
                                                 msg |-> "[DB ERROR]"])]))
    /\ UNCHANGED << engineVars, svc, fn, cfg, imp, app >>

\* generator_func raises another exception: output_file is restored and the
\* exception leaves generate_preview_pdf.
GeneratorRaisesOther ==
    /\ ui.pc = "generating"
    /\ ui' = PreviewLeftBy(
                RestoreOutput([ui EXCEPT !.generator_raised = OtherException]),
                OtherException)
    /\ UNCHANGED << engineVars, svc, fn, cfg, imp, app >>

\* convert_pdf_to_image returns an image: the handler shows it.
ConvertShowsImage ==
    /\ ui.pc = "preview_returned"
    /\ ui' = [ui EXCEPT !.pc = "done", !.pixmap = TRUE]
    /\ UNCHANGED << engineVars, svc, fn, cfg, imp, app >>

\* convert_pdf_to_image returns None.
ConvertNoImage ==
    /\ ui.pc = "preview_returned"
    /\ ui' = [ui EXCEPT !.pc = "done"]
    /\ UNCHANGED << engineVars, svc, fn, cfg, imp, app >>

\* convert_pdf_to_image raises: except Exception logs it.
ConvertFails ==
    /\ ui.pc = "preview_returned"
    /\ ui' = HandleException(ui, OtherException)
    /\ UNCHANGED << engineVars, svc, fn, cfg, imp, app >>

PreviewNext ==
    \/ CreateTempFile
    \/ CreateTempFileFails
    \/ PreviewDoubleRaises
    \/ EnterPreview
    \/ GeneratorReturns
    \/ GeneratorRaisesDatabaseError
    \/ GeneratorRaisesOther
    \/ ConvertShowsImage
    \/ ConvertNoImage
    \/ ConvertFails

SpecPreview == PreviewInit /\ [][PreviewNext]_vars

\* C11 (as claimed): when generator_func raises DatabaseConnectionError,
\* generate_preview_pdf logs an ERROR record containing "DB ERROR" on the
\* preview_engine logger and re-raises DatabaseConnectionError to its caller.
C11_PreviewReraisesDatabaseError ==
    (ui.pc = "done" /\ ui.handler = "generate_preview_pdf"
        /\ ui.generator_raised = DatabaseConnectionError) =>
        /\ \E i \in DOMAIN ui.logger :
              ui.logger[i].level = "ERROR" /\ ui.logger[i].msg = "[DB ERROR]"
        /\ ui.preview_raised = DatabaseConnectionError

\* C12: when generate_preview_pdf raises DatabaseConnectionError to
\* show_label_preview or show_page_preview, the handler shows exactly one
\* critical message box, lets no exception out and does not set the preview
\* image; no handler ever shows more than one box.
C12_HandlerShowsOneCriticalBox ==
    /\ ui.pc # "idle" => (ui.boxes <= 1 /\ ui.handler_raised = "none")
    /\ (ui.pc = "done" /\ ui.handler \in Handlers
          /\ ui.preview_raised = DatabaseConnectionError) =>
          /\ ui.boxes = 1
          /\ ui.handler_raised = "none"
          /\ ~ui.pixmap
          /\ ui.log_output = << >>

\* C12 witness: show_page_preview has ended after generate_preview_pdf
\* raised DatabaseConnectionError, with one critical box shown.
C12_Witness ==
    /\ ui.pc = "done" /\ ui.handler = "show_page_preview"
    /\ ui.preview_raised = DatabaseConnectionError
    /\ ui.boxes = 1

(***************************************************************************)
(* DatabaseService: one operation (check_connection, get_term_labels or    *)
(* get_products_by_skus) on a service.  The record svc holds               *)
(*   op, empty_arg     the method called; whether its argument is empty    *)
(*   mode              "transient" (a connection per operation, the        *)
(*                     default), "persistent" or "pool"                    *)
(*   max_retries       the configured max_retries                          *)
(*   connection        self._connection: None, "connected" or "stale"      *)
(*   attempt           the attempt of _get_connection_with_retry           *)
(*   connects          the calls of mysql.connector.connect (of            *)
(*                     pool.get_connection with a pool)                    *)
(*   sleeps            the calls of time.sleep                             *)
(*   errors            the errno of each failed attempt, in order          *)
(*   opened, closes    the connections obtained by a connect call; the     *)
(*                     calls of conn.close()                               *)
(*   conn              whether the operation holds a connection            *)
(*   cursor_entered, cursor_exited, execute_failed   the cursor context    *)
(*   result            "pending", "returned", or the exception raised      *)
(***************************************************************************)
MaxRetries == 3
MaxQueries == 2

ConnectorError == "mysql.connector.Error"

\* transient_codes of _is_transient_error
TransientCodes ==
    {"CR_SERVER_GONE_ERROR", "CR_SERVER_LOST", "CR_CONNECTION_ERROR",
     "CR_CONN_HOST_ERROR"}

\* The errno of the connector errors tried: the transient ones, an access
\* denied error, and an error without errno.
Errnos == TransientCodes \cup {"ER_ACCESS_DENIED_ERROR", "unset"}

\* A faulty test: every connector error counts as transient.
EveryErrorTransient(errno) == TRUE

_is_transient_error(errno) == errno \in TransientCodes

\* A faulty bound: one attempt more than max(1, max_retries).
OneAttemptTooMany(s) == (IF s.max_retries > 1 THEN s.max_retries ELSE 1) + 1

\* attempts = max(1, self._max_retries)
attempts(s) == IF s.max_retries > 1 THEN s.max_retries ELSE 1

\* A faulty retry test: no attempt is ever repeated.
NeverRetry(attempt, s, errno) == FALSE

\* attempt < attempts and self._is_transient_error(exc)
ShouldRetry(attempt, s, errno) ==
    attempt < attempts(s) /\ _is_transient_error(errno)

\* A faulty release: the connection is never closed.
ReleaseKeepsOpen(s) == [s EXCEPT !.conn = FALSE]

\* _release_connection: close (a pooled connection goes back to the pool)
\* unless the service is persistent.
_release_connection(s) ==
    IF s.mode = "pool"
    THEN [s EXCEPT !.conn = FALSE, !.closes = @ + 1, !.live = @ - 1]
    ELSE IF s.mode # "persistent"
    THEN [s EXCEPT !.conn = FALSE, !.closes = @ + 1, !.live = @ - 1]
    ELSE [s EXCEPT !.conn = FALSE]

Operations == {"check_connection", "get_term_labels", "get_products_by_skus"}

SvcInit(op, empty_arg, mode, max_retries, connection) ==
    [pc |-> "called", op |-> op, empty_arg |-> empty_arg, mode |-> mode,
     max_retries |-> max_retries, connection |-> connection,
     attempt |-> 0, connects |-> 0, sleeps |-> 0, errors |-> << >>,
     opened |-> 0, closes |-> 0, conn |-> FALSE,
     cursor_entered |-> 0, cursor_exited |-> 0, execute_failed |-> FALSE,
     result |-> "pending",
     queries |-> 1,
     live |-> IF connection = "connected" THEN 1 ELSE 0,
     held_at_connect |-> {}]

SvcInits ==
    {SvcInit(op, empty_arg, mode, max_retries, connection) :
        op \in Operations, empty_arg \in BOOLEAN,
        mode \in {"transient", "persistent", "pool"},
        max_retries \in (0 - 1)..MaxRetries,
        connection \in {None, "connected", "stale"}}

DbInit ==
    /\ EngineIdle
    /\ svc \in {s \in SvcInits :
                  /\ (s.op = "check_connection" => ~s.empty_arg)
                  /\ (s.mode # "persistent" => s.connection = None)}
    /\ ui = Idle /\ fn = Idle /\ cfg = Idle /\ imp = Idle /\ app = Idle

\* get_term_labels / get_products_by_skus with an empty argument: {} is
\* returned without a connection.
ReturnEmpty ==
    /\ svc.pc = "called" /\ svc.empty_arg
    /\ svc' = [svc EXCEPT !.pc = "done", !.result = "returned"]
    /\ UNCHANGED << engineVars, ui, fn, cfg, imp, app >>

\* _connect: the first attempt of _get_connection_with_retry begins.
BeginConnect ==
    /\ svc.pc = "called" /\ ~svc.empty_arg
    /\ svc' = [svc EXCEPT !.pc = "connecting", !.attempt = 1]
    /\ UNCHANGED << engineVars, ui, fn, cfg, imp, app >>

\* _acquire_connection reuses the persistent connection that is connected.
ReusePersistent ==
    /\ svc.pc = "connecting"
    /\ svc.mode = "persistent" /\ svc.connection = "connected"
    /\ svc' = [svc EXCEPT !.pc = "connected", !.conn = TRUE]
    /\ UNCHANGED << engineVars, ui, fn, cfg, imp, app >>

\* A faulty test: a new connection is opened for every attempt.
AlwaysCallsConnector(s) == TRUE

\* Whether _acquire_connection calls the connector.
CallsConnector(s) ==
    ~(s.mode = "persistent" /\ s.connection = "connected")

\* The connect call of this attempt succeeds.
ConnectSucceeds ==
    /\ svc.pc = "connecting" /\ CallsConnector(svc)
    /\ svc' = [svc EXCEPT !.pc = "connected", !.conn = TRUE,
                          !.connects = @ + 1, !.opened = @ + 1,
                          !.live = @ + 1,
                          !.held_at_connect = @ \cup { svc.connection },
                          !.connection = IF svc.mode = "persistent"
                                         THEN "connected" ELSE @]
    /\ UNCHANGED << engineVars, ui, fn, cfg, imp, app >>

\* The connect call of this attempt raises a connector error: the attempt
\* is repeated after a sleep, or DatabaseConnectionError is raised.
ConnectFails ==
    /\ svc.pc = "connecting" /\ CallsConnector(svc)
    /\ \E errno \in Errnos :
          LET failed == [svc EXCEPT !.connects = @ + 1,
                                    !.held_at_connect = @ \cup { svc.connection },
                                    !.errors = Append(@, errno)]
          IN  svc' = IF ShouldRetry(svc.attempt, svc, errno)
                     THEN [failed EXCEPT !.sleeps = @ + 1, !.attempt = @ + 1]
                     ELSE [failed EXCEPT !.pc = "done",
                                         !.result = DatabaseConnectionError]
    /\ UNCHANGED << engineVars, ui, fn, cfg, imp, app >>

\* check_connection: the with block is empty; the connection is released.
CheckReturns ==
    /\ svc.pc = "connected" /\ svc.op = "check_connection"
    /\ svc' = [_release_connection(svc) EXCEPT !.pc = "done",
                                               !.result = "returned"]
    /\ UNCHANGED << engineVars, ui, fn, cfg, imp, app >>

\* A query method enters the cursor context.
OpenCursor ==
    /\ svc.pc = "connected" /\ svc.op # "check_connection"
    /\ svc' = [svc EXCEPT !.pc = "in_cursor", !.cursor_entered = @ + 1]
    /\ UNCHANGED << engineVars, ui, fn, cfg, imp, app >>

\* conn.cursor() raises a connector error: the connection is released and
\* the method raises DatabaseConnectionError.
CursorFails ==
    /\ svc.pc = "connected" /\ svc.op # "check_connection"
    /\ svc' = [_release_connection(svc) EXCEPT
                  !.pc = "done", !.result = DatabaseConnectionError]
    /\ UNCHANGED << engineVars, ui, fn, cfg, imp, app >>

\* execute and fetchall succeed: the cursor context is left, the connection
\* released and the result returned.
QueryReturns ==
    /\ svc.pc = "in_cursor"
    /\ svc' = [_release_connection(svc) EXCEPT
                  !.pc = "done", !.cursor_exited = @ + 1,
                  !.result = "returned"]
    /\ UNCHANGED << engineVars, ui, fn, cfg, imp, app >>

\* cursor.execute raises a connector error: the cursor context is left, the
\* connection released and the error re-raised as DatabaseConnectionError.
ExecuteFails ==
    /\ svc.pc = "in_cursor"
    /\ svc' = [_release_connection(svc) EXCEPT
                  !.pc = "done", !.cursor_exited = @ + 1,
                  !.execute_failed = TRUE,
                  !.result = DatabaseConnectionError]
    /\ UNCHANGED << engineVars, ui, fn, cfg, imp, app >>

\* The next operation on the same service: what the service holds is kept,
\* the record of the operation starts again.
NextOperation ==
    /\ svc.pc = "done" /\ svc.queries < MaxQueries
    /\ \E op \in Operations, empty_arg \in BOOLEAN :
          /\ (op = "check_connection" => ~empty_arg)
          /\ svc' = [SvcInit(op, empty_arg, svc.mode, svc.max_retries,
                             svc.connection)
                        EXCEPT !.queries = svc.queries + 1,
                               !.live = svc.live,
                               !.held_at_connect = svc.held_at_connect]
    /\ UNCHANGED << engineVars, ui, fn, cfg, imp, app >>

\* Between two operations the server drops the connection the service
\* holds: is_connected() is false from then on.
ConnectionDrops ==
    /\ svc.pc = "done" /\ svc.queries < MaxQueries
    /\ svc.mode = "persistent" /\ svc.connection = "connected"
    /\ svc' = [svc EXCEPT !.connection = "stale", !.live = @ - 1]
    /\ UNCHANGED << engineVars, ui, fn, cfg, imp, app >>

DbNext ==
    \/ NextOperation
    \/ ConnectionDrops
    \/ ReturnEmpty
    \/ BeginConnect
    \/ ReusePersistent
    \/ ConnectSucceeds
    \/ ConnectFails
    \/ CheckReturns
    \/ OpenCursor
    \/ CursorFails
    \/ QueryReturns
    \/ ExecuteFails

SpecDb == DbInit /\ [][DbNext]_vars

\* What the record of an operation shows.
SvcDone == svc.pc = "done"
ConnectionObtained == svc.pc # "idle" /\ svc.opened > 0
\* The connect calls that failed, all but the last, and the last.
RetriedErrors ==
    {svc.errors[i] : i \in 1..(Len(svc.errors) - (IF ConnectionObtained THEN 0 ELSE 1))}
LastErrorFinal ==
    svc.errors # << >> /\ ~ConnectionObtained /\ svc.pc = "done"

\* C13: in the default mode (no pool, not persistent) a connection is never
\* closed twice and the cursor context never exited twice, and when the
\* operation has ended every connection opened has been closed exactly once
\* and the cursor context entered has been exited exactly once, whether the
\* query returned or raised DatabaseConnectionError after a failing execute.
C13_DefaultModeClosesOnce ==
    (svc.pc # "idle" /\ svc.mode = "transient") =>
        /\ svc.opened <= 1
        /\ svc.closes <= svc.opened
        /\ svc.cursor_exited <= svc.cursor_entered
        /\ svc.cursor_entered <= 1
        /\ SvcDone =>
              /\ svc.closes = svc.opened
              /\ svc.cursor_exited = svc.cursor_entered
              /\ ~svc.conn
              /\ (svc.op # "check_connection" /\ svc.result = "returned"
                    /\ ~svc.empty_arg) =>
                    (svc.opened = 1 /\ svc.closes = 1 /\ svc.cursor_exited = 1)
              /\ svc.execute_failed =>
                    /\ svc.result = DatabaseConnectionError
                    /\ svc.opened = 1 /\ svc.closes = 1 /\ svc.cursor_exited = 1

\* C13 witness: in the default mode a query has raised
\* DatabaseConnectionError after a failing execute, its connection closed
\* once and its cursor context exited once.
C13_Witness ==
    /\ SvcDone /\ svc.mode = "transient" /\ svc.op = "get_term_labels"
    /\ svc.execute_failed /\ svc.result = DatabaseConnectionError
    /\ svc.closes = 1 /\ svc.cursor_exited = 1

\* C14 (as claimed): a transient failure with attempts left is followed by
\* another attempt, and a connection obtained after a failure is closed
\* exactly once when the operation has ended, whatever the mode of the
\* service.
C14_RetryThenCloseOnce ==
    (SvcDone /\ svc.errors # << >>) =>
        /\ LastErrorFinal =>
              ~(Len(svc.errors) < attempts(svc)
                  /\ svc.errors[Len(svc.errors)] \in TransientCodes)
        /\ ConnectionObtained => svc.closes = 1

\* C14 (amended): the connect calls never exceed max(1, max_retries); every
\* failure that was followed by another attempt was transient and was
\* followed by one sleep; an operation gives up only on a non-transient
\* error or on the last attempt; a connection obtained after a failure is
\* closed exactly once when the operation has ended, except by a persistent
\* service, which keeps it open (max_retries = 2, default mode, failure then
\* success: 2 connect calls, 1 close).
C14_RetryThenCloseOnceUnlessPersistent ==
    svc.pc # "idle" =>
        /\ svc.connects <= attempts(svc)
        /\ svc.attempt <= attempts(svc)
        /\ RetriedErrors \subseteq TransientCodes
        /\ svc.sleeps = Len(svc.errors) - (IF LastErrorFinal THEN 1 ELSE 0)
        /\ LastErrorFinal =>
              /\ svc.result = DatabaseConnectionError
              /\ ~(Len(svc.errors) < attempts(svc)
                     /\ svc.errors[Len(svc.errors)] \in TransientCodes)
        /\ (SvcDone /\ ConnectionObtained /\ svc.errors # << >>) =>
              /\ svc.connects = Len(svc.errors) + 1
              /\ svc.opened = 1
              /\ svc.closes = (IF svc.mode = "persistent" THEN 0 ELSE 1)
              /\ (svc.max_retries = 2 /\ svc.mode = "transient") =>
                    (svc.connects = 2 /\ svc.closes = 1)

\* C14 witness: max_retries = 2 in the default mode, a server-lost error
\* then a successful connect: two connect calls, one close.
C14_Witness ==
    /\ SvcDone /\ svc.mode = "transient" /\ svc.max_retries = 2
    /\ svc.errors = << "CR_SERVER_LOST" >>
    /\ svc.connects = 2 /\ svc.closes = 1 /\ svc.result = "returned"

\* C15: a connect call that fails with a non-transient connector error is
\* the last connect call of the operation, no sleep follows it, and the
\* operation (check_connection and each query method) ends by raising
\* DatabaseConnectionError; no operation ends with a raw connector error.
C15_NonTransientNotRetried ==
    svc.pc # "idle" =>
        /\ svc.result # ConnectorError
        /\ \A i \in DOMAIN svc.errors :
              svc.errors[i] \notin TransientCodes =>
                  /\ i = Len(svc.errors)
                  /\ svc.connects = i
                  /\ svc.sleeps = i - 1
                  /\ svc.opened = 0
                  /\ SvcDone
                  /\ svc.result = DatabaseConnectionError

\* C15 witness: check_connection with max_retries = 3 has ended with
\* DatabaseConnectionError after a single connect call that failed with an
\* access-denied error.
C15_Witness ==
    /\ SvcDone /\ svc.op = "check_connection" /\ svc.max_retries = 3
    /\ svc.errors = << "ER_ACCESS_DENIED_ERROR" >>
    /\ svc.connects = 1
    /\ svc.result = DatabaseConnectionError

\* C26: with persistent = true and no pool, over a sequence of operations
\* the connector is called only when the service holds no connection or
\* holds one that reports not connected; an operation that holds a
\* connection without having called the connector is using the held,
\* connected one; releasing never closes; and the open connections are
\* exactly the held one when it is connected, so at most one is open.
C26_PersistentConnectionReused ==
    (svc.pc # "idle" /\ svc.mode = "persistent") =>
        /\ svc.held_at_connect \subseteq { None, "stale" }
        /\ (svc.conn /\ svc.connects = 0) => svc.connection = "connected"
        /\ (svc.pc = "connecting" /\ svc.connection = "connected") =>
              svc.connects = 0
        /\ svc.closes = 0
        /\ svc.live = (IF svc.connection = "connected" THEN 1 ELSE 0)
        /\ svc.live <= 1

\* C26 witness: the second query of a persistent service has returned
\* without a connect call, on the connection the first one opened.
C26_Witness ==
    /\ SvcDone /\ svc.mode = "persistent" /\ svc.queries = 2
    /\ svc.op = "get_products_by_skus" /\ svc.result = "returned"
    /\ svc.cursor_exited = 1
    /\ svc.connects = 0 /\ svc.held_at_connect = { None }
    /\ svc.connection = "connected" /\ svc.live = 1

\* C30: for every max_retries value (zero and negative included) and every
\* sequence of connector errors, one _connect makes at most
\* max(1, max_retries) connect calls; it ends either with an open
\* connection or with DatabaseConnectionError; no connect call follows a
\* successful one.
C30_ConnectAttemptsBounded ==
    svc.pc # "idle" =>
        LET most == IF svc.max_retries > 1 THEN svc.max_retries ELSE 1
        IN  /\ svc.connects <= most
            /\ svc.attempt <= most
            /\ svc.opened <= 1
            /\ svc.opened = 1 => svc.connects = Len(svc.errors) + 1
            /\ svc.opened = 0 => svc.connects = Len(svc.errors)
            /\ svc.pc \in { "connected", "in_cursor" } => svc.conn
            /\ (svc.pc = "done" /\ ~svc.empty_arg) =>
                  \/ svc.opened = 1
                  \/ svc.mode = "persistent" /\ svc.connects = 0
                  \/ svc.result = DatabaseConnectionError /\ svc.errors # << >>

\* C30 witness: with max_retries = 0 a single transient failure ends the
\* operation with DatabaseConnectionError after one connect call.
C30_Witness ==
    /\ SvcDone /\ svc.max_retries = 0
    /\ svc.errors = << "CR_SERVER_LOST" >>
    /\ svc.connects = 1 /\ svc.sleeps = 0
    /\ svc.result = DatabaseConnectionError

(***************************************************************************)
(* Text helpers of label_engine.py: extract_composition,                   *)
(* extract_manufacturer, extract_age_as_size, extract_measurements,        *)
(* write_measurement_log and is_size_value.                                *)
(*                                                                         *)
(* A description is a sequence of lines.  A line is one of                 *)
(*   compo   "Состав:<value>"                                              *)
(*   manuf   "Адрес производителя:<value>"                                 *)
(*   age     "Возраст: <value>"                                            *)
(*   header  "Замеры:"                                                     *)
(*   blank   ""                                                            *)
(*   other   a line with no marker                                         *)
(*   size    "<size> (<segment>, <segment>, ...)"                          *)
(* and a segment is "<phrase> <cm>" followed by "см" when unit is TRUE.    *)
(* Cyrillic literals are written in Latin transliteration.                 *)
(***************************************************************************)

MaxLines == 3
MaxChars == 3

Line(kind, value, size, segs) ==
    [kind |-> kind, value |-> value, size |-> size, segs |-> segs]

Seg(phrase, cm, unit) == [phrase |-> phrase, cm |-> cm, unit |-> unit]

CompoLine(value) == Line("compo", value, "", << >>)
ManufLine(value) == Line("manuf", value, "", << >>)
AgeLine(value) == Line("age", value, "", << >>)
HeaderLine == Line("header", "", "", << >>)
BlankLine == Line("blank", "", "", << >>)
OtherLine == Line("other", "", "", << >>)
SizeLine(size, segs) == Line("size", "", size, segs)

\* "86 (вся длина от плеча 40 см)"
WholeLengthLine ==
    SizeLine("86", << Seg("vsya dlina ot plecha", 40, TRUE) >>)

\* "86 (рост 86, обхват груди 50 см, рукав до плеча 30 см)"
ChestThenSleeveLine ==
    SizeLine("86", << Seg("rost", 86, FALSE), Seg("obhvat grudi", 50, TRUE),
                      Seg("rukav do plecha", 30, TRUE) >>)

\* "86 (рост 86)"
HeightOnlyLine == SizeLine("86", << Seg("rost", 86, FALSE) >>)

\* "92 (обхват груди 52 см, рукав до плеча 32 см)": the text before the first
\* comma is dropped.
FirstSegmentDroppedLine ==
    SizeLine("92", << Seg("obhvat grudi", 52, TRUE),
                      Seg("rukav do plecha", 32, TRUE) >>)

\* "(86 (обхват груди 50 см)"
ParenSizeLine == SizeLine("(86", << Seg("obhvat grudi", 50, TRUE) >>)

MarkerLines ==
    { CompoLine(""), CompoLine("hlopok 100%"), ManufLine("Minsk"),
      AgeLine("2-3 let"), OtherLine, BlankLine }

MeasurementLines ==
    { HeaderLine, BlankLine, OtherLine, WholeLengthLine, ChestThenSleeveLine,
      HeightOnlyLine, FirstSegmentDroppedLine, ParenSizeLine }

Texts(alphabet) == UNION { [1..k -> alphabet] : k \in 0..MaxLines }

\* The size tokens handed to extract_measurements: none, two sizes, and a
\* token that is not a regular expression.
TargetSizes == { "", "86", "92", "(86" }

\* re.compile accepts the digits; "(86" has an unterminated group.
ValidPattern(target_size) == target_size # "(86"

\* Whether open("measurements.log", "a") succeeds.
Sinks == { "writable", "unwritable" }

\* What a call returned or raised: none is "the value is None", str a
\* returned string, parts the fragments of a returned measurements string
\* (joined with ", "), bool a returned boolean, written the lines appended to
\* measurements.log.
Ret(exc, none, str, fragments, bool, written) ==
    [raised |-> exc, none |-> none, str |-> str, parts |-> fragments,
     bool |-> bool, written |-> written]

NoRet == Ret("none", TRUE, "", << >>, FALSE, << >>)
ReturnNone == NoRet
ReturnStr(str) == Ret("none", FALSE, str, << >>, FALSE, << >>)
ReturnBool(bool) == Ret("none", FALSE, "", << >>, bool, << >>)
Raise(exc) == Ret(exc, TRUE, "", << >>, FALSE, << >>)

HasKind(text, kind) == \E i \in DOMAIN text : text[i].kind = kind

FirstOfKind(text, kind) ==
    text[CHOOSE i \in DOMAIN text :
            /\ text[i].kind = kind
            /\ \A j \in 1..(i - 1) : text[j].kind # kind]

\* re.search for the marker, the rest of its line stripped.
SearchMarker(text, kind) ==
    IF HasKind(text, kind) THEN ReturnStr(FirstOfKind(text, kind).value)
    ELSE ReturnNone

extract_composition(text) == SearchMarker(text, "compo")

extract_manufacturer(text) == SearchMarker(text, "manuf")

extract_age_as_size(text) == SearchMarker(text, "age")

\* Python's "x or default": None and the empty string are falsy.
OrDefault(ret, default) ==
    IF ret.none \/ ret.str = "" THEN default ELSE ret.str

CompositionPlaceholder == "____________________"

ManufacturerPlaceholder ==
    "____________________\n____________________\n____________________"

composition(text) ==
    ReturnStr(OrDefault(extract_composition(text), CompositionPlaceholder))

manufacturer(text) ==
    ReturnStr(OrDefault(extract_manufacturer(text), ManufacturerPlaceholder))

\* keyword_map in insertion order.
keyword_map ==
    << [raw_key |-> "dlina ot plecha",        label |-> "dlina"],
       [raw_key |-> "dlina kofty ot plecha",  label |-> "dlina"],
       [raw_key |-> "vsya dlina ot plecha",   label |-> "dlina"],
       [raw_key |-> "vsya dlina",             label |-> "dlina"],
       [raw_key |-> "rukav do gorloviny",     label |-> "rukav"],
       [raw_key |-> "rukav do plecha",        label |-> "rukav"],
       [raw_key |-> "rukav do kapyushona",    label |-> "rukav"],
       [raw_key |-> "obhvat grudi",           label |-> "obhvat grudi"],
       [raw_key |-> "shagovoy",               label |-> "shagovoy"],
       [raw_key |-> "shagovoy shtanishek",    label |-> "shagovoy"],
       [raw_key |-> "obhvat talii",           label |-> "obhvat talii"] >>

\* The pattern raw_key\s*(\d+\s*см) matches inside a segment when the
\* segment's phrase ends with raw_key and its number carries the unit.
KeyMatches(raw_key, seg) ==
    /\ seg.unit
    /\ \/ seg.phrase = raw_key
       \/ raw_key = "dlina ot plecha" /\ seg.phrase = "vsya dlina ot plecha"

\* The group in parentheses, with everything up to the first comma dropped
\* when there is a comma.
inner_text(segs) == IF Len(segs) >= 2 THEN Tail(segs) ELSE segs

Fragment(short, seg) == [label |-> short, cm |-> seg.cm]

FirstMatch(raw_key, inner) ==
    inner[CHOOSE i \in DOMAIN inner :
             /\ KeyMatches(raw_key, inner[i])
             /\ \A j \in 1..(i - 1) : ~KeyMatches(raw_key, inner[j])]

RECURSIVE PartsFrom(_, _)
PartsFrom(k, inner) ==
    IF k > Len(keyword_map) THEN << >>
    ELSE (IF \E i \in DOMAIN inner : KeyMatches(keyword_map[k].raw_key, inner[i])
          THEN << Fragment(keyword_map[k].label,
                           FirstMatch(keyword_map[k].raw_key, inner)) >>
          ELSE << >>)
         \o PartsFrom(k + 1, inner)

RECURSIVE PartsInTextOrderFrom(_, _)
PartsInTextOrderFrom(i, inner) ==
    IF i > Len(inner) THEN << >>
    ELSE LET hits == { k \in DOMAIN keyword_map :
                          KeyMatches(keyword_map[k].raw_key, inner[i]) }
             frag(k) == Fragment(keyword_map[k].label, inner[i])
             RECURSIVE Each(_)
             Each(k) == IF k > Len(keyword_map) THEN << >>
                        ELSE (IF k \in hits THEN << frag(k) >> ELSE << >>)
                             \o Each(k + 1)
         IN  Each(1) \o PartsInTextOrderFrom(i + 1, inner)

\* A faulty collection of the fragments: in the order of the text instead of
\* the order of keyword_map.
PartsInTextOrder(inner) == PartsInTextOrderFrom(1, inner)

\* One fragment per keyword that matches, in the order of keyword_map.
parts(inner) == PartsFrom(1, inner)

\* open() raises OSError when the file cannot be opened; nothing catches it.
write_measurement_log(log_lines, sink) ==
    IF sink = "writable" THEN [raised |-> "none", written |-> log_lines]
    ELSE [raised |-> "OSError", written |-> << >>]

\* "write_measurement_log(log_lines); return result".
WriteThenReturn(log_lines, sink, ret) ==
    LET w == write_measurement_log(log_lines, sink)
    IN  IF w.raised # "none" THEN Raise(w.raised)
        ELSE [ret EXCEPT !.written = w.written]

HeaderIndex(text) ==
    CHOOSE i \in DOMAIN text :
        /\ text[i].kind = "header"
        /\ \A j \in 1..(i - 1) : text[j].kind # "header"

\* The lines between the first "Замеры:" and the first empty line after it
\* (or the end of the text).
BlockLines(text) ==
    LET h == HeaderIndex(text)
        stops == { i \in (h + 1)..Len(text) : text[i].kind = "blank" }
        last == IF stops = {} THEN Len(text)
                ELSE (CHOOSE i \in stops : \A j \in stops : i <= j) - 1
    IN  SubSeq(text, h + 1, last)

\* re.match(\s*<target_size>\s*\((.*?)\), line) for a valid pattern.
LineMatches(target_size, line) ==
    line.kind = "size" /\ line.size = target_size

Checked(n) == [i \in 1..n |-> "check"]

\* block.group(1).splitlines(): the rest of the "Замеры:" line, which is
\* empty, then the lines of the block; no line at all for an empty block.
SplitLines(text) ==
    IF BlockLines(text) = << >> THEN << >>
    ELSE << BlankLine >> \o BlockLines(text)

\* The pattern is compiled with target_size pasted in unescaped when the
\* first line is tried: re.error for a token that is no regular expression.
extract_measurements(text, target_size, sink) ==
    IF target_size = ""
    THEN WriteThenReturn(<< "[SKIP] no size" >>, sink, ReturnNone)
    ELSE IF ~HasKind(text, "header")
    THEN WriteThenReturn(<< "[SKIP] no block" >>, sink, ReturnNone)
    ELSE LET lines == SplitLines(text)
             hits == { i \in DOMAIN lines : LineMatches(target_size, lines[i]) }
         IN  IF lines # << >> /\ ~ValidPattern(target_size)
             THEN Raise("re.error")
             ELSE IF hits = {}
             THEN WriteThenReturn(Checked(Len(lines)) \o << "[SKIP] no match" >>,
                                  sink, ReturnNone)
             ELSE LET i == CHOOSE i \in hits : \A j \in hits : i <= j
                      found == parts(inner_text(lines[i].segs))
                      result == IF found = << >> THEN ReturnNone
                                ELSE Ret("none", FALSE, "", found, FALSE, << >>)
                  IN  WriteThenReturn(Checked(i) \o << "found" >>, sink, result)

\* The characters of a size value: a Latin letter, the Cyrillic letter "р"
\* (inside the range а-я), the Cyrillic letter "ё" (outside the ranges А-Я
\* and а-я), digits, hyphen, en dash, space and a full stop.
Chars ==
    { "M", "cyr_er", "cyr_yo", "0", "2", "5", "6", "-", "en_dash", " ", "." }

Values == UNION { [1..k -> Chars] : k \in 0..MaxChars }

Digit(c) == c \in { "0", "2", "5", "6" }

DigitValue(c) ==
    IF c = "0" THEN 0 ELSE IF c = "2" THEN 2 ELSE IF c = "5" THEN 5 ELSE 6

\* re.search("[A-Za-zА-Яа-я]", value)
SearchLetter(value) == \E i \in DOMAIN value : value[i] \in { "M", "cyr_er" }

\* re.match("\d+\s*[\-–]\s*\d+", value)
MatchRange(value) ==
    \E a \in DOMAIN value, p \in DOMAIN value, q \in DOMAIN value :
        /\ a < p /\ p < q
        /\ \A i \in 1..a : Digit(value[i])
        /\ \A i \in (a + 1)..(p - 1) : value[i] = " "
        /\ value[p] \in { "-", "en_dash" }
        /\ \A i \in (p + 1)..(q - 1) : value[i] = " "
        /\ Digit(value[q])

\* str.strip() on the value.
Strip(value) ==
    LET solid == { i \in DOMAIN value : value[i] # " " }
    IN  IF solid = {} THEN << >>
        ELSE SubSeq(value,
                    CHOOSE i \in solid : \A j \in solid : i <= j,
                    CHOOSE i \in solid : \A j \in solid : i >= j)

Unsigned(value) ==
    LET t == Strip(value)
    IN  IF t # << >> /\ t[1] = "-" THEN Tail(t) ELSE t

\* int(value) does not raise ValueError: surrounding whitespace, an optional
\* sign, then digits only.
ParsesAsInt(value) ==
    /\ Unsigned(value) # << >>
    /\ \A i \in DOMAIN Unsigned(value) : Digit(Unsigned(value)[i])

RECURSIVE Number(_)
Number(digits) ==
    IF digits = << >> THEN 0
    ELSE 10 * Number(SubSeq(digits, 1, Len(digits) - 1))
         + DigitValue(digits[Len(digits)])

IntValue(value) ==
    IF Strip(value)[1] = "-" THEN 0 - Number(Unsigned(value))
    ELSE Number(Unsigned(value))

is_size_value(value) ==
    IF SearchLetter(value) THEN TRUE
    ELSE IF MatchRange(value) THEN TRUE
    ELSE IF ParsesAsInt(value) THEN IntValue(value) < 56
    ELSE FALSE

\* The word put before the size on the label; no word for an empty value.
size_label(value) ==
    IF value = << >> THEN ""
    ELSE IF is_size_value(value) THEN "Razmer" ELSE "Rost"

(***************************************************************************)
(* The helpers as a state machine: one call is drawn, the function is      *)
(* applied, the call is done.                                              *)
(***************************************************************************)

MarkerFunctions ==
    { "extract_composition", "extract_manufacturer", "extract_age_as_size",
      "composition", "manufacturer" }

FnCall(name, text, target_size, sink, value) ==
    [pc |-> "call", name |-> name, text |-> text, target_size |-> target_size,
     sink |-> sink, value |-> value, ret |-> NoRet]

FnCalls ==
    { FnCall(name, text, "", "writable", << >>) :
          name \in MarkerFunctions, text \in Texts(MarkerLines) }
    \cup { FnCall("extract_measurements", text, target_size, sink, << >>) :
              text \in Texts(MeasurementLines), target_size \in TargetSizes,
              sink \in Sinks }
    \cup { FnCall("is_size_value", << >>, "", "writable", value) :
              value \in Values }

FnInit ==
    /\ EngineIdle
    /\ ui = Idle
    /\ svc = Idle
    /\ cfg = Idle
    /\ imp = Idle /\ app = Idle
    /\ fn \in FnCalls

Done(ret) == [fn EXCEPT !.pc = "done", !.ret = ret]

ExtractComposition ==
    /\ fn.pc = "call" /\ fn.name = "extract_composition"
    /\ fn' = Done(extract_composition(fn.text))
    /\ UNCHANGED << engineVars, ui, svc, cfg, imp, app >>

ExtractManufacturer ==
    /\ fn.pc = "call" /\ fn.name = "extract_manufacturer"
    /\ fn' = Done(extract_manufacturer(fn.text))
    /\ UNCHANGED << engineVars, ui, svc, cfg, imp, app >>

ExtractAgeAsSize ==
    /\ fn.pc = "call" /\ fn.name = "extract_age_as_size"
    /\ fn' = Done(extract_age_as_size(fn.text))
    /\ UNCHANGED << engineVars, ui, svc, cfg, imp, app >>

\* composition = extract_composition(description) or the underscores
Composition ==
    /\ fn.pc = "call" /\ fn.name = "composition"
    /\ fn' = Done(composition(fn.text))
    /\ UNCHANGED << engineVars, ui, svc, cfg, imp, app >>

\* manufacturer = extract_manufacturer(description) or the underscores
Manufacturer ==
    /\ fn.pc = "call" /\ fn.name = "manufacturer"
    /\ fn' = Done(manufacturer(fn.text))
    /\ UNCHANGED << engineVars, ui, svc, cfg, imp, app >>

ExtractMeasurements ==
    /\ fn.pc = "call" /\ fn.name = "extract_measurements"
    /\ fn' = Done(extract_measurements(fn.text, fn.target_size, fn.sink))
    /\ UNCHANGED << engineVars, ui, svc, cfg, imp, app >>

\* is_size_value and the word chosen from its result.
IsSizeValue ==
    /\ fn.pc = "call" /\ fn.name = "is_size_value"
    /\ fn' = Done([ReturnBool(is_size_value(fn.value)) EXCEPT
                      !.str = size_label(fn.value)])
    /\ UNCHANGED << engineVars, ui, svc, cfg, imp, app >>

FnNext ==
    \/ ExtractComposition
    \/ ExtractManufacturer
    \/ ExtractAgeAsSize
    \/ Composition
    \/ Manufacturer
    \/ ExtractMeasurements
    \/ IsSizeValue

SpecFunctions == FnInit /\ [][FnNext]_vars

(***************************************************************************)
(* Properties of the text helpers                                          *)
(***************************************************************************)

FnDone(name) == fn.pc = "done" /\ fn.name = name

\* C16 (as claimed): extract_composition, extract_manufacturer,
\* extract_age_as_size and extract_measurements return a string or None and
\* never raise, for every text and size token; when the marker is missing
\* the composition line carries the line of underscores and the manufacturer
\* line the three lines of underscores.
C16_ExtractorsNeverRaise ==
    /\ (/\ fn.pc = "done"
        /\ fn.name \in { "extract_composition", "extract_manufacturer",
                         "extract_age_as_size", "extract_measurements" })
          => fn.ret.raised = "none"
    /\ (FnDone("composition") /\ ~HasKind(fn.text, "compo"))
          => fn.ret.str = CompositionPlaceholder
    /\ (FnDone("manufacturer") /\ ~HasKind(fn.text, "manuf"))
          => fn.ret.str = ManufacturerPlaceholder

\* C17 (as claimed): what extract_measurements returns is the same whether
\* the trace can be written or not.
C17_TraceNeverAffectsResult ==
    FnDone("extract_measurements") =>
        \A sink \in Sinks :
            LET other == extract_measurements(fn.text, fn.target_size, sink)
            IN  /\ other.raised = fn.ret.raised
                /\ other.none = fn.ret.none
                /\ other.parts = fn.ret.parts

\* The block has a line that begins with the size followed by a group in
\* parentheses.
HasSizeLine(text, target_size) ==
    /\ HasKind(text, "header")
    /\ \E i \in DOMAIN BlockLines(text) :
          /\ BlockLines(text)[i].kind = "size"
          /\ BlockLines(text)[i].size = target_size

FirstSizeLine(text, target_size) ==
    LET lines == BlockLines(text)
    IN  lines[CHOOSE i \in DOMAIN lines :
                 /\ lines[i].kind = "size" /\ lines[i].size = target_size
                 /\ \A j \in 1..(i - 1) :
                       ~(lines[j].kind = "size" /\ lines[j].size = target_size)]

\* The first keyword_map position of a fragment's name.
LabelRank(short) ==
    CHOOSE k \in DOMAIN keyword_map :
        /\ keyword_map[k].label = short
        /\ \A j \in 1..(k - 1) : keyword_map[j].label # short

InTableOrder(fragments) ==
    \A i \in DOMAIN fragments, j \in DOMAIN fragments :
        i < j => LabelRank(fragments[i].label) <= LabelRank(fragments[j].label)

IsLetter(c) == c \in { "M", "cyr_er", "cyr_yo" }

\* C19 (as claimed): is_size_value is true when the value contains a Latin
\* or Cyrillic letter, otherwise true when it starts with a numeric range,
\* otherwise true exactly when it parses as an integer below 56, and false
\* otherwise, the empty string included; the size is prefixed "Размер" when
\* it is true and "Рост" when it is false.
C19_SizeValueClassification ==
    FnDone("is_size_value") =>
        LET claimed ==
                IF \E i \in DOMAIN fn.value : IsLetter(fn.value[i]) THEN TRUE
                ELSE IF MatchRange(fn.value) THEN TRUE
                ELSE ParsesAsInt(fn.value) /\ IntValue(fn.value) < 56
        IN  /\ fn.ret.bool = claimed
            /\ fn.value # << >> =>
                  fn.ret.str = (IF claimed THEN "Razmer" ELSE "Rost")
            /\ fn.value = << >> => ~fn.ret.bool

(***************************************************************************)
(* Properties of the care image                                            *)
(***************************************************************************)

\* C20: load_care_image returns None for an empty path and for every
\* failure of the loading (missing file, network error, decode error) and
\* does not raise; the run then continues: no placed label has the care
\* image, no line is drawn with the image, the space reserved in the line
\* height computation is that of the barcode alone, and a completed run has
\* placed one label for every entry of the label list and saved the file.
C20_MissingCareImageIsSkipped ==
    /\ \A path \in CarePaths, outcome \in CareOutcomes :
          (path = "" \/ outcome # "loaded") => ~load_care_image(path, outcome)
    /\ (calls.load_care_image = 1 /\ ~care_img) =>
          /\ pc \in { "terms", "placing", "returned" }
          /\ raised = "none"
          /\ LabelPlaced =>
                /\ ~label.has_care_img
                /\ \A i \in DOMAIN label.draws : ~label.draws[i].image
                /\ label.physically_used_mm =
                      (IF PriceTagged THEN (gen.barcode_height \div mm) + 2
                       ELSE 0)
          /\ Completed =>
                /\ NumLabels = Len(expanded)
                /\ Saved

\* C20 witness: a completed run whose settings name a care image that could
\* not be loaded; its labels have a care line and all of them were placed.
C20_Witness ==
    /\ Completed
    /\ gen.care_image_path # ""
    /\ ~care_img
    /\ LabelPlaced /\ CareTagged
    /\ Len(expanded) >= 2
    /\ NumLabels = Len(expanded)

(***************************************************************************)
(* Properties of the collaborators                                         *)
(***************************************************************************)

\* C21: in one generation run get_products_by_skus, get_term_labels and
\* load_care_image are each invoked at most once; once a label has been
\* placed each of them has been invoked exactly once, and that stays so
\* whatever the number of labels placed, up to the end of the run.
C21_CollaboratorsInvokedOnce ==
    /\ calls.get_products_by_skus <= 1
    /\ calls.get_term_labels <= 1
    /\ calls.load_care_image <= 1
    /\ (pc = "placing" \/ Completed \/ LabelPlaced) =>
          calls = [get_products_by_skus |-> 1, get_term_labels |-> 1,
                   load_care_image |-> 1]

\* C21 witness: a completed run that placed at least three labels with one
\* invocation of each collaborator.
C21_Witness ==
    /\ Completed
    /\ NumLabels >= 3
    /\ calls = [get_products_by_skus |-> 1, get_term_labels |-> 1,
                load_care_image |-> 1]

(***************************************************************************)
(* generate_labels_entry on settings read from a JSON file: a setting may  *)
(* hold a value of the wrong type (a text or null where a number is        *)
(* expected, a number where a text is expected).  The run is followed      *)
(* through the places where each setting is first used.                    *)
(***************************************************************************)

MaxMalformed == 1

\* The settings multiplied by mm in LabelGenerator.__init__.
DimensionKeys ==
    { "page_width_mm", "page_height_mm", "label_width_mm",
      "min_line_height_mm", "barcode_height_mm", "bottom_margin_mm",
      "top_margin_mm" }

\* The settings stored as they are by LabelGenerator.__init__ and used later.
StoredKeys ==
    { "font_size", "labels_per_page", "care_image_path", "use_stock_quantity" }

MalformedSets ==
    { m \in SUBSET (DimensionKeys \cup StoredKeys) :
          Cardinality(m) <= MaxMalformed }

\* A faulty constructor that stores the values without multiplying them.
ConstructorNeverRaises(malformed) == FALSE

\* value * mm raises TypeError for a text and for None.
ConstructorRaises(malformed) == malformed \cap DimensionKeys # {}

CfgInit ==
    /\ EngineIdle
    /\ ui = Idle /\ svc = Idle /\ fn = Idle /\ imp = Idle /\ app = Idle
    /\ \E malformed \in MalformedSets, labels \in 0..MaxSkus :
          cfg = [pc |-> "called", malformed |-> malformed, labels |-> labels,
                 canvas_created |-> FALSE, care_img |-> FALSE, idx |-> 0,
                 draws |-> 0, saved |-> FALSE, raised |-> "none"]

CfgAbort == [cfg EXCEPT !.pc = "aborted", !.raised = "TypeError"]

\* LabelGenerator(settings, db_service) raises.
ConstructorRejects ==
    /\ cfg.pc = "called"
    /\ ConstructorRaises(cfg.malformed)
    /\ cfg' = CfgAbort
    /\ UNCHANGED << engineVars, ui, svc, fn, imp, app >>

ConstructorAccepts ==
    /\ cfg.pc = "called"
    /\ ~ConstructorRaises(cfg.malformed)
    /\ cfg' = [cfg EXCEPT !.pc = "constructed"]
    /\ UNCHANGED << engineVars, ui, svc, fn, imp, app >>

\* The products are fetched and expanded; use_stock_quantity is read by its
\* truth value, whatever its type.
FetchAndExpand ==
    /\ cfg.pc = "constructed"
    /\ cfg' = [cfg EXCEPT !.pc = "expanded"]
    /\ UNCHANGED << engineVars, ui, svc, fn, imp, app >>

\* generate_labels: the canvas is created and the care image is loaded; a
\* path of the wrong type gives None like every other failure.
CreateCanvas ==
    /\ cfg.pc = "expanded"
    /\ \E outcome \in CareOutcomes :
          cfg' = [cfg EXCEPT
                     !.pc = "placing",
                     !.canvas_created = TRUE,
                     !.care_img =
                         IF "care_image_path" \in cfg.malformed THEN FALSE
                         ELSE load_care_image("care.png", outcome)]
    /\ UNCHANGED << engineVars, ui, svc, fn, imp, app >>

\* idx % self.labels_per_page raises TypeError.
PositionFails ==
    /\ cfg.pc = "placing"
    /\ cfg.idx < cfg.labels
    /\ "labels_per_page" \in cfg.malformed
    /\ cfg' = CfgAbort
    /\ UNCHANGED << engineVars, ui, svc, fn, imp, app >>

\* simpleSplit(rawtext, font, self.font_size, ...) raises TypeError when it
\* measures the text.
SplitFails ==
    /\ cfg.pc = "placing"
    /\ cfg.idx < cfg.labels
    /\ "labels_per_page" \notin cfg.malformed
    /\ "font_size" \in cfg.malformed
    /\ cfg' = CfgAbort
    /\ UNCHANGED << engineVars, ui, svc, fn, imp, app >>

\* The lines and the barcode of one label are drawn.
DrawLabel ==
    /\ cfg.pc = "placing"
    /\ cfg.idx < cfg.labels
    /\ "labels_per_page" \notin cfg.malformed
    /\ "font_size" \notin cfg.malformed
    /\ cfg' = [cfg EXCEPT !.idx = @ + 1, !.draws = @ + 1]
    /\ UNCHANGED << engineVars, ui, svc, fn, imp, app >>

\* len(products_list) % self.labels_per_page raises TypeError.
TrailingBreakFails ==
    /\ cfg.pc = "placing"
    /\ cfg.idx = cfg.labels
    /\ "labels_per_page" \in cfg.malformed
    /\ cfg' = CfgAbort
    /\ UNCHANGED << engineVars, ui, svc, fn, imp, app >>

\* buffer.save()
SaveDocument ==
    /\ cfg.pc = "placing"
    /\ cfg.idx = cfg.labels
    /\ "labels_per_page" \notin cfg.malformed
    /\ cfg' = [cfg EXCEPT !.pc = "returned", !.saved = TRUE]
    /\ UNCHANGED << engineVars, ui, svc, fn, imp, app >>

CfgNext ==
    \/ ConstructorRejects
    \/ ConstructorAccepts
    \/ FetchAndExpand
    \/ CreateCanvas
    \/ PositionFails
    \/ SplitFails
    \/ DrawLabel
    \/ TrailingBreakFails
    \/ SaveDocument

SpecConfig == CfgInit /\ [][CfgNext]_vars

CfgEnded == cfg.pc \in { "aborted", "returned" }

PreviewLeft == ui.pc \in { "preview_returned", "done" }

\* C23 (as claimed): when generate_preview_pdf has returned or raised,
\* settings["output_file"] has the value it had before the call, and the key
\* is absent if it was absent before; during the call it holds pdf_path.
C23_OutputFileRestored ==
    /\ ui.pc = "generating" => ui.output_file = PreviewPath
    /\ PreviewLeft => ui.output_file = ui.output_before

(***************************************************************************)
(* Importing label_engine: the statements of the module are executed in    *)
(* order.  The inputs are the working directory of the process, whether    *)
(* the two font files exist beside the module, and whether DEBUG records   *)
(* are enabled (configure_logging ran before the import, as in main.py).   *)
(***************************************************************************)

ModuleDir == "module_dir"

WorkingDirs == { ModuleDir, "tmp_dir", "home_dir", "root_dir" }

FontNames == { "DejaVuSans", "DejaVuSans-Bold" }

\* BASE_DIR = Path(__file__).resolve().parent; FONT_DIR = BASE_DIR / "fonts":
\* the directory of the module, whatever the working directory.
FontPath(cwd, name) == [dir |-> ModuleDir, file |-> name]

\* TTFont(name, path) reads the file.
FontFileExists(path, present) ==
    path.dir = ModuleDir /\ path.file \in present

ImpInit ==
    /\ EngineIdle
    /\ ui = Idle /\ svc = Idle /\ fn = Idle /\ cfg = Idle /\ app = Idle
    /\ \E cwd \in WorkingDirs, present \in SUBSET FontNames,
          debug \in BOOLEAN :
          imp = [pc |-> "start", cwd |-> cwd, present |-> present,
                 debug |-> debug, registered |-> {}, names |-> {},
                 raised |-> "none"]

\* Lines 1-19: the imports of the libraries and of database_service.
ImportLibraries ==
    /\ imp.pc = "start"
    /\ imp' = [imp EXCEPT !.pc = "imported",
                          !.names = @ \cup { "DatabaseService",
                                             "DatabaseConnectionError" }]
    /\ UNCHANGED << engineVars, ui, svc, fn, cfg, app >>

\* Lines 22-53: the logger, load_skus_from_file, the defaults and the font
\* paths.
DefineDefaults ==
    /\ imp.pc = "imported"
    /\ imp' = [imp EXCEPT !.pc = "fonts",
                          !.names = @ \cup { "logger", "load_skus_from_file",
                                             "BASE_DIR", "FONT_DIR" }]
    /\ UNCHANGED << engineVars, ui, svc, fn, cfg, app >>

\* Lines 55-56: the next font that is not registered yet is registered.
NextFont ==
    IF "DejaVuSans" \notin imp.registered THEN "DejaVuSans"
    ELSE "DejaVuSans-Bold"

RegisterFont ==
    /\ imp.pc = "fonts"
    /\ imp.registered # FontNames
    /\ FontFileExists(FontPath(imp.cwd, NextFont), imp.present)
    /\ imp' = [imp EXCEPT !.registered = @ \cup { NextFont }]
    /\ UNCHANGED << engineVars, ui, svc, fn, cfg, app >>

\* TTFont raises when the file cannot be opened.
RegisterFontFails ==
    /\ imp.pc = "fonts"
    /\ imp.registered # FontNames
    /\ ~FontFileExists(FontPath(imp.cwd, NextFont), imp.present)
    /\ imp' = [imp EXCEPT !.pc = "failed", !.raised = "TTFError"]
    /\ UNCHANGED << engineVars, ui, svc, fn, cfg, app >>

\* Lines 59-222: the helper functions are defined.
DefineHelpers ==
    /\ imp.pc = "fonts"
    /\ imp.registered = FontNames
    /\ imp' = [imp EXCEPT !.pc = "class_body",
                          !.names = @ \cup { "extract_composition",
                                             "extract_manufacturer",
                                             "extract_measurements",
                                             "write_measurement_log",
                                             "extract_age_as_size",
                                             "load_care_image",
                                             "extract_other_attributes",
                                             "get_product_quantity" }]
    /\ UNCHANGED << engineVars, ui, svc, fn, cfg, app >>

\* Lines 225-474: the body of class LabelGenerator is executed: __init__ and
\* generate_labels are defined, then the statement
\* logger.debug("...", skus) at line 474 evaluates the name skus, which is
\* bound neither in the class body nor in the module: NameError, whether or
\* not DEBUG records are enabled.  The class and the module-level
\* generate_labels_entry are never defined.
ClassBodyRaises ==
    /\ imp.pc = "class_body"
    /\ "skus" \notin imp.names
    /\ imp' = [imp EXCEPT !.pc = "failed", !.raised = "NameError"]
    /\ UNCHANGED << engineVars, ui, svc, fn, cfg, app >>

ImpNext ==
    \/ ImportLibraries
    \/ DefineDefaults
    \/ RegisterFont
    \/ RegisterFontFails
    \/ DefineHelpers
    \/ ClassBodyRaises

SpecImport == ImpInit /\ [][ImpNext]_vars

\* C24 (as claimed): with the font files beside the module, importing
\* label_engine from any working directory completes without raising and
\* leaves both fonts registered.
C24_ImportRegistersFonts ==
    (imp.pc # "idle" /\ imp.present = FontNames) =>
        /\ imp.raised = "none"
        /\ imp.pc \in { "class_body", "failed" } => imp.registered = FontNames

(***************************************************************************)
(* Properties of the page preview                                          *)
(***************************************************************************)

\* The run was started by show_page_preview: the SKU list is one SKU
\* repeated labels_per_page times.
PagePreviewRun ==
    /\ pc \notin { "idle", "called" }
    /\ Len(skus) = gen.labels_per_page
    /\ \A i \in DOMAIN skus : skus[i] = skus[1]

\* C25 (as claimed): the document generated for show_page_preview(sku)
\* contains exactly labels_per_page labels, whatever the stock quantity of
\* the product.
C25_PagePreviewFillsPage ==
    (PagePreviewRun /\ Completed) => NumLabels = gen.labels_per_page

(***************************************************************************)
(* Properties of the vertical extent of a label.                           *)
(***************************************************************************)

\* C27 (as claimed): for every placed label whose raw line height was not
\* raised to MIN_LINE_HEIGHT, the bottom edge bc_y of its barcode is at or
\* above the bottom margin.
C27_BarcodeAboveBottomMargin ==
    (LabelPlaced /\ ~RawBelowMin) =>
        \A i \in DOMAIN label.draws :
            label.draws[i].barcode =>
                FLeq(Whole(gen.bottom_margin), label.draws[i].bc_y)

(***************************************************************************)
(* Properties of the tagged lines of a label.                              *)
(***************************************************************************)
Tagged(what) == {i \in DOMAIN label.draws : label.draws[i][what]}

\* C28 (as claimed): every placed label has exactly one line tagged price
\* and at most one line tagged care, hence exactly one barcode and at most
\* one care image, whatever its texts contain.
C28_OneBarcodePerLabel ==
    LabelPlaced =>
        /\ Cardinality(Tagged("is_price")) = 1
        /\ Cardinality(Tagged("is_care")) <= 1
        /\ Cardinality(Tagged("barcode")) = 1
        /\ Cardinality(Tagged("image")) <= 1

(***************************************************************************)
(* LabelMakerApp.generate_pdf of main.py: the handler of the "generate"    *)
(* button, around generate_labels_entry(skus, settings, db_config).        *)
(*   skus              the texts of the items of sku_list                  *)
(*   has_output_file   whether self.settings holds the key output_file     *)
(*   db                "ok", or where the database fails: the constructor  *)
(*                     of DatabaseService, get_products_by_skus or         *)
(*                     get_term_labels raises DatabaseConnectionError      *)
(*   malformed         whether a dimension of the settings is not a number *)
(*   save_fails        whether writing the document raises OSError         *)
(*   platform          sys.platform                                        *)
(*   startfile_fails   whether os.startfile raises OSError                 *)
(***************************************************************************)
DbOutcomes == { "ok", "constructor_fails", "products_fail", "terms_fail" }
Platforms == { "win32", "linux" }

AppInit(sl, has_key, db, malformed, save_fails, platform, start_fails) ==
    [pc |-> "called", skus |-> sl, has_output_file |-> has_key,
     db |-> db, malformed |-> malformed, save_fails |-> save_fails,
     platform |-> platform, startfile_fails |-> start_fails,
     saved |-> FALSE, log_output |-> << >>, boxes |-> << >>,
     engine_log |-> << >>, started |-> FALSE]

PdfInit ==
    /\ EngineIdle
    /\ ui = Idle /\ svc = Idle /\ fn = Idle /\ cfg = Idle /\ imp = Idle
    /\ \E sl \in { << >>, << "A" >>, << "A", "B" >> },
          has_output_file \in BOOLEAN, db \in DbOutcomes,
          malformed \in BOOLEAN, save_fails \in BOOLEAN,
          platform \in Platforms, startfile_fails \in BOOLEAN :
          app = AppInit(sl, has_output_file, db, malformed, save_fails,
                        platform, startfile_fails)

\* except DatabaseConnectionError: a critical box titled "Ошибка БД".
HandleDatabaseError(a) ==
    [a EXCEPT !.pc = "done", !.boxes = Append(@, "critical_db")]

\* except Exception: an error entry in log_output and a critical box.
HandleOtherError(a) ==
    [a EXCEPT !.pc = "done", !.log_output = Append(@, "error"),
              !.boxes = Append(@, "critical")]

\* if not skus: a warning box, and nothing else.
PdfEmptyList ==
    /\ app.pc = "called" /\ app.skus = << >>
    /\ app' = [app EXCEPT !.pc = "done", !.boxes = Append(@, "warning")]
    /\ UNCHANGED << engineVars, ui, svc, fn, cfg, imp >>

\* DatabaseService(db_config) raises DatabaseConnectionError outside the try
\* of generate_labels_entry.
PdfServiceFails ==
    /\ app.pc = "called" /\ app.skus # << >>
    /\ app.db = "constructor_fails"
    /\ app' = HandleDatabaseError(app)
    /\ UNCHANGED << engineVars, ui, svc, fn, cfg, imp >>

\* LabelGenerator(settings, db_service) raises TypeError on a dimension that
\* is not a number.
PdfGeneratorFails ==
    /\ app.pc = "called" /\ app.skus # << >>
    /\ app.db # "constructor_fails" /\ app.malformed
    /\ app' = HandleOtherError(app)
    /\ UNCHANGED << engineVars, ui, svc, fn, cfg, imp >>

\* The service and the generator are constructed.
PdfConstruct ==
    /\ app.pc = "called" /\ app.skus # << >>
    /\ app.db # "constructor_fails" /\ ~app.malformed
    /\ app' = [app EXCEPT !.pc = "entry"]
    /\ UNCHANGED << engineVars, ui, svc, fn, cfg, imp >>

\* get_products_by_skus raises DatabaseConnectionError: the method logs it
\* and returns, and so does generate_labels_entry.
PdfProductsFail ==
    /\ app.pc = "entry" /\ app.db = "products_fail"
    /\ app' = [app EXCEPT !.pc = "returned",
                          !.engine_log = Append(@, "[DB ERROR]")]
    /\ UNCHANGED << engineVars, ui, svc, fn, cfg, imp >>

\* get_products_by_skus returns and the products are expanded.
PdfProductsOk ==
    /\ app.pc = "entry" /\ app.db # "products_fail"
    /\ app' = [app EXCEPT !.pc = "generating"]
    /\ UNCHANGED << engineVars, ui, svc, fn, cfg, imp >>

\* get_term_labels raises DatabaseConnectionError inside generate_labels:
\* generate_labels_entry logs it and returns.
PdfTermLabelsFail ==
    /\ app.pc = "generating" /\ app.db = "terms_fail"
    /\ app' = [app EXCEPT !.pc = "returned",
                          !.engine_log = Append(@, "[DB ERROR]")]
    /\ UNCHANGED << engineVars, ui, svc, fn, cfg, imp >>

\* buffer.save() raises OSError, which leaves generate_labels_entry.
PdfSaveFails ==
    /\ app.pc = "generating" /\ app.db = "ok" /\ app.save_fails
    /\ app' = HandleOtherError(app)
    /\ UNCHANGED << engineVars, ui, svc, fn, cfg, imp >>

\* generate_labels saves the document and generate_labels_entry returns.
PdfSaves ==
    /\ app.pc = "generating" /\ app.db = "ok" /\ ~app.save_fails
    /\ app' = [app EXCEPT !.pc = "returned", !.saved = TRUE]
    /\ UNCHANGED << engineVars, ui, svc, fn, cfg, imp >>

\* self.settings['output_file'] raises KeyError while the success entry is
\* formatted.
PdfReportKeyError ==
    /\ app.pc = "returned" /\ ~app.has_output_file
    /\ app' = HandleOtherError(app)
    /\ UNCHANGED << engineVars, ui, svc, fn, cfg, imp >>

\* The success entry of log_output and the information box.
PdfReportSuccess ==
    /\ app.pc = "returned" /\ app.has_output_file
    /\ app' = [app EXCEPT !.pc = IF app.platform = "win32"
                                 THEN "opening" ELSE "done",
                          !.log_output = Append(@, "success"),
                          !.boxes = Append(@, "information")]
    /\ UNCHANGED << engineVars, ui, svc, fn, cfg, imp >>

\* os.startfile(self.settings['output_file']) on Windows.
PdfStartFile ==
    /\ app.pc = "opening" /\ ~app.startfile_fails
    /\ app' = [app EXCEPT !.pc = "done", !.started = TRUE]
    /\ UNCHANGED << engineVars, ui, svc, fn, cfg, imp >>

\* os.startfile raises OSError.
PdfStartFileFails ==
    /\ app.pc = "opening" /\ app.startfile_fails
    /\ app' = HandleOtherError(app)
    /\ UNCHANGED << engineVars, ui, svc, fn, cfg, imp >>

PdfNext ==
    \/ PdfEmptyList
    \/ PdfServiceFails
    \/ PdfGeneratorFails
    \/ PdfConstruct
    \/ PdfProductsFail
    \/ PdfProductsOk
    \/ PdfTermLabelsFail
    \/ PdfSaveFails
    \/ PdfSaves
    \/ PdfReportKeyError
    \/ PdfReportSuccess
    \/ PdfStartFile
    \/ PdfStartFileFails

SpecPdf == PdfInit /\ [][PdfNext]_vars

(***************************************************************************)
(* Properties of generate_pdf.                                             *)
(***************************************************************************)
ReportedSuccess ==
    /\ \E i \in DOMAIN app.log_output : app.log_output[i] = "success"
    /\ \E i \in DOMAIN app.boxes : app.boxes[i] = "information"

ReportedError ==
    \/ \E i \in DOMAIN app.log_output : app.log_output[i] = "error"
    \/ \E i \in DOMAIN app.boxes : app.boxes[i] \in { "critical", "critical_db" }

\* C29 (as claimed): when generate_pdf has ended, success was reported
\* exactly when a PDF was saved by the call; with the database unavailable an
\* error and no success was reported, and with a saved PDF (the settings
\* holding output_file or not) success and no error was reported.
C29_SuccessIffSaved ==
    app.pc = "done" =>
        /\ ReportedSuccess <=> app.saved
        /\ (app.skus # << >> /\ app.db # "ok") =>
              (ReportedError /\ ~ReportedSuccess)
        /\ app.saved => (ReportedSuccess /\ ~ReportedError)

====
